---- MODULE Spec2Model ----
(***************************************************************************)
(* Model of the ffav binding layer (crates/ffav, crates/ffav-sys): the     *)
(* error translation (error.rs, ffav-sys/err.rs), the FilterGraph          *)
(* construction / execution protocol (raw/filter/graph.rs, raw/filter),    *)
(* the raw demuxing / decoding interface (raw/format.rs, raw/container.rs, *)
(* raw/codec.rs, raw/packet.rs, raw/frame.rs), SimpleDecoder               *)
(* (decode/simple.rs) and the loop of fftest (fftest/src/main.rs).         *)
(***************************************************************************)
EXTENDS Integers, Sequences, FiniteSets, TLC

VARIABLES eagain, graphs, handles, frame, last, errCall, errOut,
          fmt, pkt, codec, frm, run, dicts, heap, smap, iters

\* the demuxing / decoding side: the container, the caller's Packet, the
\* Codec, the caller's decode Frame and the position of the running loop
decvars == <<fmt, pkt, codec, frm, run>>

vars == <<eagain, graphs, handles, frame, last, errCall, errOut, decvars,
          dicts, heap, smap, iters>>

(***************************************************************************)
(* Bounds of the model.                                                    *)
(***************************************************************************)
\* number of FilterGraph values created in one run
MaxGraphs == 2
\* number of native filter nodes allocated in one run
MaxNodes == 2

(***************************************************************************)
(* ffav-sys/src/err.rs: the native error codes.                            *)
(***************************************************************************)
\* errno.h values bindgen generates into err_bindings.rs
ENOMEM == 12
EINVAL == 22
\* EAGAIN is 11 on Linux and 35 on macOS / the BSDs
EAGAIN_LINUX == 11
EAGAIN_BSD == 35
EagainValues == {EAGAIN_LINUX, EAGAIN_BSD}

abs(x) == IF x < 0 THEN -x ELSE x

av_err(err) == -abs(err)

\* the four characters are disjoint bytes, so the bitwise or is a sum
mk_tag(a, b, c, d) == a + b * 256 + c * 65536 + d * 16777216

ffaverr(a, b, c, d) == -mk_tag(a, b, c, d)

\* 'E' 'O' 'F' ' '
AVERROR_EOF == ffaverr(69, 79, 70, 32)
\* 'B' 'U' 'G' '!'
AVERROR_BUG == ffaverr(66, 85, 71, 33)
\* 'I' 'N' 'D' 'A'
AVERROR_INVALIDDATA == ffaverr(73, 78, 68, 65)
\* 0xF8 'S' 'T' 'R'
AVERROR_STREAM_NOT_FOUND == ffaverr(248, 83, 84, 82)

(***************************************************************************)
(* ffav/src/error.rs: the Error values and the shared translation.         *)
(***************************************************************************)
Ok == [kind |-> "Ok"]
GraphDoesntOwnHandle == [kind |-> "GraphDoesntOwnHandle"]
SubmitMoreInput == [kind |-> "SubmitMoreInput"]
CouldNotAcceptInput == [kind |-> "CouldNotAcceptInput"]
EoF == [kind |-> "EoF"]
StreamNotFound == [kind |-> "StreamNotFound"]
InvalidData == [kind |-> "InvalidData"]
PacketFromInvalidStream == [kind |-> "PacketFromInvalidStream"]
AllocationFailed(ctx) == [kind |-> "AllocationFailed", ctx |-> ctx]
InvalidArguments(ctx) == [kind |-> "InvalidArguments", ctx |-> ctx]
ResourceNotFound(ctx) == [kind |-> "ResourceNotFound", ctx |-> ctx]
Unknown(ctx) == [kind |-> "Unknown", ctx |-> ctx]
AVUnknown(ctx, ret) == [kind |-> "AVUnknown", ctx |-> ctx, ret_val |-> ret]
FilterNotFound(t) == [kind |-> "FilterNotFound", filter_type |-> t]
InvalidFilterName(n) == [kind |-> "InvalidFilterName", name |-> n]
FilterNotRegisteredWithGraph(n) == [kind |-> "FilterNotRegisteredWithGraph", name |-> n]
OutputPadDoesntExist(n, t, p) ==
    [kind |-> "OutputPadDoesntExist", name |-> n, filter_type |-> t, pad_number |-> p]
InputPadDoesntExist(n, t, p) ==
    [kind |-> "InputPadDoesntExist", name |-> n, filter_type |-> t, pad_number |-> p]

\* a translation that compares against the errno values, not their negations
from_av_err_positive(ctx, err) ==
    IF err = ENOMEM THEN AllocationFailed(ctx)
    ELSE IF err = EINVAL THEN InvalidArguments(ctx)
    ELSE IF err = AVERROR_EOF THEN EoF
    ELSE IF err = AVERROR_STREAM_NOT_FOUND THEN StreamNotFound
    ELSE IF err = AVERROR_INVALIDDATA THEN InvalidData
    ELSE AVUnknown(ctx, err)

\* a translation whose fallback drops the raw code
from_av_err_lossy(ctx, err) ==
    IF err = av_err(ENOMEM) THEN AllocationFailed(ctx)
    ELSE IF err = av_err(EINVAL) THEN InvalidArguments(ctx)
    ELSE IF err = AVERROR_EOF THEN EoF
    ELSE IF err = AVERROR_STREAM_NOT_FOUND THEN StreamNotFound
    ELSE IF err = AVERROR_INVALIDDATA THEN InvalidData
    ELSE Unknown(ctx)

from_av_err(ctx, err) ==
    IF err = av_err(ENOMEM) THEN AllocationFailed(ctx)
    ELSE IF err = av_err(EINVAL) THEN InvalidArguments(ctx)
    ELSE IF err = AVERROR_EOF THEN EoF
    ELSE IF err = AVERROR_STREAM_NOT_FOUND THEN StreamNotFound
    ELSE IF err = AVERROR_INVALIDDATA THEN InvalidData
    ELSE AVUnknown(ctx, err)

(***************************************************************************)
(* raw/filter: the filter types, their capabilities and their pads.        *)
(***************************************************************************)
FilterTypes == {"abuffer", "acrossfade", "abuffersink"}

HasOutputPads(t) == t \in {"abuffer", "acrossfade"}

HasInputPads(t) == t \in {"acrossfade", "abuffersink"}

FilterInput(t) == t = "abuffer"

FilterOutput(t) == t = "abuffersink"

\* the pads the native filter type declares
NbInputs(t) == IF t = "abuffer" THEN 0 ELSE IF t = "acrossfade" THEN 2 ELSE 1

NbOutputs(t) == IF t = "abuffersink" THEN 0 ELSE 1

\* filter names a caller gives (fftest names its nodes after their role); the
\* last one holds an interior NUL byte
Names == {"src", "cross", "out", "bad\\0name"}

NamesOf(t) == {IF t = "abuffer" THEN "src" ELSE IF t = "acrossfade" THEN "cross" ELSE "out",
               "bad\\0name"}

HasNul(name) == name = "bad\\0name"

NullLink == <<>>

NullPtr == 0

\* the addresses avfilter_graph_alloc hands out: one per graph is enough for all
\* of them to be alive at once
Addrs == 1..MaxGraphs

Graphs == 1..MaxGraphs

\* the pad indices a caller passes: up to one past the last pad of the widest filter
Pads == 0..NbInputs("acrossfade")

\* a native AVFilterContext right after avfilter_graph_alloc_filter
NewNode(t, name) ==
    [filter_type |-> t, name |-> name,
     inputs |-> [i \in 1..NbInputs(t) |-> NullLink],
     outputs |-> [i \in 1..NbOutputs(t) |-> NullLink]]

NoGraph == [phase |-> "Unborn", graph |-> NullPtr, nodes |-> <<>>, filters |-> <<>>,
            configures |-> 0, frees |-> 0]

Live(g) == graphs[g].phase \in {"Unconfigured", "Configured"}

\* native nodes of the live graphs that are in no self.filters
Orphans == LET RECURSIVE Sum(_)
               Sum(g) == IF g = 0 THEN 0
                         ELSE Len(graphs[g].nodes) - Len(graphs[g].filters) + Sum(g - 1)
           IN Sum(MaxGraphs)

NoOp == [op |-> "none", g |-> 0, args |-> <<>>, res |-> Ok, native |-> <<>>]

Called(fn, ret) == [fn |-> fn, ret |-> ret]

(***************************************************************************)
(* What the native library may answer to each call.                        *)
(***************************************************************************)
InitDictRets == {0, av_err(EINVAL)}

GraphConfigRets == {0, av_err(EINVAL)}

\* avfilter_link validates the pads itself and answers EINVAL for a bad one
avfilter_link_rets(srcnode, sp, dstnode, dp) ==
    IF \/ Len(srcnode.outputs) <= sp
       \/ Len(dstnode.inputs) <= dp
       \/ srcnode.outputs[sp + 1] # NullLink
       \/ dstnode.inputs[dp + 1] # NullLink
    THEN {av_err(EINVAL)}
    ELSE {0, av_err(EINVAL), av_err(ENOMEM)}

\* av_buffersrc_add_frame_flags / av_buffersink_get_frame
FrameIoRets == {0, av_err(EAGAIN_LINUX), av_err(EAGAIN_BSD), AVERROR_EOF}

(***************************************************************************)
(* raw/packet.rs, raw/frame.rs, raw/format.rs, raw/codec.rs: the objects   *)
(* of the decoding side as they are when nothing has been opened.          *)
(***************************************************************************)
\* Packet::new: an allocated AVPacket that references no data
NewPacket == [alloc |-> TRUE, data |-> FALSE, stream_index |-> 0]

\* Frame::new: an allocated AVFrame that references no data
NewFrame == [alloc |-> TRUE, data |-> FALSE]

\* no input has been opened
NoFormat == [api |-> "none", streams |-> <<>>, packets |-> <<>>, pos |-> 0]

\* no Codec has been opened
NoCodec == [open |-> FALSE, stream_index |-> 0, buffered |-> 0, ready |-> 0,
            draining |-> FALSE]

\* no decode loop is running
NotRunning == [pc |-> "idle", api |-> "none", log |-> <<>>, res |-> Ok,
               frames |-> 0]

(***************************************************************************)
(* raw/filter/graph.rs: FilterGraph<Unconfigured>.                         *)
(***************************************************************************)
Init ==
    /\ eagain \in EagainValues
    /\ dicts = <<>>
    /\ heap = <<>>
    /\ smap = [state |-> "none", map |-> {}, src |-> <<>>]
    /\ iters = <<>>
    /\ graphs = [g \in Graphs |-> NoGraph]
    /\ handles = {}
    /\ frame = "empty"
    /\ last = NoOp
    /\ errCall = [op |-> "none", ctx |-> "", err |-> 0]
    /\ errOut = Ok
    /\ fmt = NoFormat
    /\ pkt = NewPacket
    /\ codec = NoCodec
    /\ frm = NewFrame
    /\ run = NotRunning

\* the addresses the program still holds: of a live graph, or in a handle
KnownAddrs == {graphs[k].graph : k \in {k \in Graphs : Live(k)}}
                  \cup {h.graph_id : h \in handles}

\* an address is only ever compared for equality, so it is enough that a new
\* graph gets a known address no live graph has, or the first unknown one
MayAllocate(a) ==
    /\ \A k \in Graphs : Live(k) => graphs[k].graph # a
    /\ a \in KnownAddrs \/ \A b \in Addrs \ KnownAddrs : a <= b

\* FilterGraph::new: avfilter_graph_alloc answers an address, or NULL
New(g, a) ==
    /\ graphs[g].phase = "Unborn"
    /\ \A k \in Graphs : k < g => graphs[k].phase # "Unborn"
    /\ \/ /\ a = NullPtr
          /\ last' = [op |-> "new", g |-> g, args |-> <<>>,
                      res |-> AllocationFailed("creating filter graph"),
                      native |-> <<Called("avfilter_graph_alloc", NullPtr)>>]
          /\ UNCHANGED graphs
       \/ /\ a \in Addrs
          /\ MayAllocate(a)
          /\ graphs' = [graphs EXCEPT ![g] =
                           [phase |-> "Unconfigured", graph |-> a, nodes |-> <<>>,
                            filters |-> <<>>, configures |-> 0, frees |-> 0]]
          /\ last' = [op |-> "new", g |-> g, args |-> <<>>, res |-> Ok,
                      native |-> <<Called("avfilter_graph_alloc", a)>>]
    /\ UNCHANGED <<dicts, heap, smap, iters, decvars, eagain, handles, frame, errCall, errOut>>

\* a handle that counts the nodes from one
MintHandle_one_based(g, t, name, id) ==
    [graph_id |-> graphs[g].graph, filter_id |-> id + 1, name |-> name,
     filter_type |-> t, minted_by |-> g]

\* the handle FilterGraph::add returns
MintHandle(g, t, name, id) ==
    [graph_id |-> graphs[g].graph, filter_id |-> id, name |-> name, filter_type |-> t,
     minted_by |-> g]

\* a lookup that hands on whatever avfilter_get_by_name answered
Filter_filter_unchecked(t, found) == Ok

\* Filter::filter: avfilter_get_by_name of the type name, NULL is an error
Filter_filter(t, found) == IF ~found THEN FilterNotFound(t) ELSE Ok

\* FilterGraph::add and inner_add. The native answers are drawn where the code
\* asks for them: found (avfilter_get_by_name knows the type), fctx
\* (avfilter_graph_alloc_filter) and ret (avfilter_init_dict)
Add(g, t, name) ==
    /\ graphs[g].phase = "Unconfigured"
    /\ Cardinality(handles) + Orphans < MaxNodes
    /\ LET call(res, native) ==
               [op |-> "add", g |-> g, args |-> <<t, name>>, res |-> res, native |-> native]
           alloc(fctx) == Called("avfilter_graph_alloc_filter", fctx)
           node == Len(graphs[g].nodes) + 1
           id == Len(graphs[g].filters)
       IN  \E found \in BOOLEAN :
           LET byname == Called("avfilter_get_by_name",
                                IF found THEN 1 ELSE NullPtr)
           IN
           IF Filter_filter(t, found) # Ok THEN
               /\ last' = call(Filter_filter(t, found), <<byname>>)
               /\ UNCHANGED <<graphs, handles>>
           ELSE IF HasNul(name) THEN
               /\ last' = call(InvalidFilterName(name), <<byname>>)
               /\ UNCHANGED <<graphs, handles>>
           ELSE \E fctx \in {NullPtr, 1} :
           IF fctx = NullPtr THEN
               /\ last' = call(AllocationFailed("creating filter"),
                               <<byname, alloc(fctx)>>)
               /\ UNCHANGED <<graphs, handles>>
           ELSE \E ret \in InitDictRets :
           IF ret < 0 THEN
               \* the node stays in the native graph, but not in self.filters
               /\ graphs' = [graphs EXCEPT ![g].nodes = Append(@, NewNode(t, name))]
               /\ last' = call(from_av_err("setting filter parameters", ret),
                               <<byname, alloc(fctx),
                                 Called("avfilter_init_dict", ret)>>)
               /\ UNCHANGED handles
           ELSE
               /\ graphs' = [graphs EXCEPT ![g].nodes = Append(@, NewNode(t, name)),
                                           ![g].filters = Append(@, node)]
               /\ handles' = handles \cup {MintHandle(g, t, name, id)}
               /\ last' = call(Ok, <<byname, alloc(fctx),
                                     Called("avfilter_init_dict", ret)>>)
    /\ UNCHANGED <<dicts, heap, smap, iters, decvars, eagain, frame, errCall, errOut>>

\* self.filters.get(h.filter_id) finds a node
Registered(g, h) == h.filter_id < Len(graphs[g].filters)

\* the native node self.filters[h.filter_id] points to
NodeIndex(g, h) == graphs[g].filters[h.filter_id + 1]

NodeOf(g, h) == graphs[g].nodes[NodeIndex(g, h)]

\* an output pad check that only looks whether the pad exists
OutputPadBad_exists_only(node, pad) == Len(node.outputs) <= pad

\* the output pad is missing or already linked
OutputPadBad(node, pad) == Len(node.outputs) <= pad \/ node.outputs[pad + 1] # NullLink

\* an input pad check whose bound is off by one
InputPadBad_off_by_one(node, pad) ==
    Len(node.inputs) < pad \/ (pad < Len(node.inputs) /\ node.inputs[pad + 1] # NullLink)

\* the input pad is missing or already linked
InputPadBad(node, pad) == Len(node.inputs) <= pad \/ node.inputs[pad + 1] # NullLink

\* inner_connect without its pad checks, leaving them to avfilter_link
connect_checks_no_pads(g, src, src_pad, dest, dest_pad) ==
    IF src.graph_id # graphs[g].graph THEN GraphDoesntOwnHandle
    ELSE IF dest.graph_id # graphs[g].graph THEN GraphDoesntOwnHandle
    ELSE IF ~Registered(g, src) THEN FilterNotRegisteredWithGraph(src.name)
    ELSE IF ~Registered(g, dest) THEN FilterNotRegisteredWithGraph(dest.name)
    ELSE Ok

\* inner_connect without the identity check of the destination handle
connect_checks_src_id_only(g, src, src_pad, dest, dest_pad) ==
    IF src.graph_id # graphs[g].graph THEN GraphDoesntOwnHandle
    ELSE IF ~Registered(g, src) THEN FilterNotRegisteredWithGraph(src.name)
    ELSE IF ~Registered(g, dest) THEN FilterNotRegisteredWithGraph(dest.name)
    ELSE IF OutputPadBad(NodeOf(g, src), src_pad)
         THEN OutputPadDoesntExist(src.name, src.filter_type, src_pad)
    ELSE IF InputPadBad(NodeOf(g, dest), dest_pad)
         THEN InputPadDoesntExist(dest.name, dest.filter_type, dest_pad)
    ELSE Ok

\* inner_connect checking the pad of the destination before the pad of the
\* source
connect_checks_input_pad_first(g, src, src_pad, dest, dest_pad) ==
    IF src.graph_id # graphs[g].graph THEN GraphDoesntOwnHandle
    ELSE IF dest.graph_id # graphs[g].graph THEN GraphDoesntOwnHandle
    ELSE IF ~Registered(g, src) THEN FilterNotRegisteredWithGraph(src.name)
    ELSE IF ~Registered(g, dest) THEN FilterNotRegisteredWithGraph(dest.name)
    ELSE IF InputPadBad(NodeOf(g, dest), dest_pad)
         THEN InputPadDoesntExist(dest.name, dest.filter_type, dest_pad)
    ELSE IF OutputPadBad(NodeOf(g, src), src_pad)
         THEN OutputPadDoesntExist(src.name, src.filter_type, src_pad)
    ELSE Ok

\* inner_connect looking up the destination node before the source node
connect_checks_dest_first(g, src, src_pad, dest, dest_pad) ==
    IF src.graph_id # graphs[g].graph THEN GraphDoesntOwnHandle
    ELSE IF dest.graph_id # graphs[g].graph THEN GraphDoesntOwnHandle
    ELSE IF ~Registered(g, dest) THEN FilterNotRegisteredWithGraph(dest.name)
    ELSE IF ~Registered(g, src) THEN FilterNotRegisteredWithGraph(src.name)
    ELSE IF OutputPadBad(NodeOf(g, src), src_pad)
         THEN OutputPadDoesntExist(src.name, src.filter_type, src_pad)
    ELSE IF InputPadBad(NodeOf(g, dest), dest_pad)
         THEN InputPadDoesntExist(dest.name, dest.filter_type, dest_pad)
    ELSE Ok

\* the checks of inner_connect that precede avfilter_link: the first error, or Ok
connect_checks(g, src, src_pad, dest, dest_pad) ==
    IF src.graph_id # graphs[g].graph THEN GraphDoesntOwnHandle
    ELSE IF dest.graph_id # graphs[g].graph THEN GraphDoesntOwnHandle
    ELSE IF ~Registered(g, src) THEN FilterNotRegisteredWithGraph(src.name)
    ELSE IF ~Registered(g, dest) THEN FilterNotRegisteredWithGraph(dest.name)
    ELSE IF OutputPadBad(NodeOf(g, src), src_pad)
         THEN OutputPadDoesntExist(src.name, src.filter_type, src_pad)
    ELSE IF InputPadBad(NodeOf(g, dest), dest_pad)
         THEN InputPadDoesntExist(dest.name, dest.filter_type, dest_pad)
    ELSE Ok

\* the native graph after a successful avfilter_link(s, sp, d, dp)
Linked(nodes, s, sp, d, dp) ==
    LET out == [nodes EXCEPT ![s].outputs[sp + 1] = <<d, dp>>]
    IN  [out EXCEPT ![d].inputs[dp + 1] = <<s, sp>>]

\* FilterGraph::connect and inner_connect
Connect(g, src, src_pad, dest, dest_pad) ==
    /\ graphs[g].phase = "Unconfigured"
    /\ HasOutputPads(src.filter_type)
    /\ HasInputPads(dest.filter_type)
    /\ LET call(res, native) ==
               [op |-> "connect", g |-> g, args |-> <<src, src_pad, dest, dest_pad>>,
                res |-> res, native |-> native]
           chk == connect_checks(g, src, src_pad, dest, dest_pad)
       IN  IF chk # Ok THEN
               /\ last' = call(chk, <<>>)
               /\ UNCHANGED graphs
           ELSE
               \E ret \in avfilter_link_rets(NodeOf(g, src), src_pad,
                                             NodeOf(g, dest), dest_pad) :
                   /\ last' = call(IF ret < 0 THEN from_av_err("linking filters", ret)
                                   ELSE Ok,
                                   <<Called("avfilter_link", ret)>>)
                   /\ graphs' = IF ret < 0 THEN graphs
                                ELSE [graphs EXCEPT ![g].nodes =
                                         Linked(@, NodeIndex(g, src), src_pad,
                                                NodeIndex(g, dest), dest_pad)]
    /\ UNCHANGED <<dicts, heap, smap, iters, decvars, eagain, handles, frame, errCall, errOut>>

\* the FilterGraph value after its Drop ran: avfilter_graph_free frees the
\* native graph with its nodes and nulls the pointer
Freed(gr) == [gr EXCEPT !.phase = "Dropped", !.graph = NullPtr, !.nodes = <<>>,
                        !.filters = <<>>,
                        !.frees = IF gr.graph = NullPtr THEN @ ELSE @ + 1]

\* a configure that borrows the graph: a failure leaves it Unconfigured and usable
Configure_borrowing(g, ret) ==
    /\ graphs[g].phase = "Unconfigured"
    /\ graphs' = [graphs EXCEPT ![g] =
                     IF ret < 0
                     THEN [@ EXCEPT !.configures = @ + 1]
                     ELSE [@ EXCEPT !.phase = "Configured", !.configures = @ + 1]]
    /\ last' = [op |-> "configure", g |-> g, args |-> <<>>,
                res |-> IF ret < 0 THEN from_av_err("configuring filter graph", ret)
                        ELSE Ok,
                native |-> <<Called("avfilter_graph_config", ret)>>]
    /\ UNCHANGED <<dicts, heap, smap, iters, decvars, eagain, handles, frame, errCall, errOut>>

\* a configure that returns a copy of self and lets self drop: the native
\* graph is released while the Configured graph still points to it
Configure_freeing(g, ret) ==
    /\ graphs[g].phase = "Unconfigured"
    /\ graphs' = [graphs EXCEPT ![g] =
                     IF ret < 0
                     THEN Freed([@ EXCEPT !.configures = @ + 1])
                     ELSE [@ EXCEPT !.phase = "Configured", !.configures = @ + 1,
                                    !.frees = @ + 1]]
    /\ last' = [op |-> "configure", g |-> g, args |-> <<>>,
                res |-> IF ret < 0 THEN from_av_err("configuring filter graph", ret)
                        ELSE Ok,
                native |-> <<Called("avfilter_graph_config", ret)>>]
    /\ UNCHANGED <<dicts, heap, smap, iters, decvars, eagain, handles, frame, errCall, errOut>>

\* FilterGraph::configure consumes self: a failure returns and drops it, a
\* success transmutes it (the value is moved, its Drop does not run)
Configure(g, ret) ==
    /\ graphs[g].phase = "Unconfigured"
    /\ graphs' = [graphs EXCEPT ![g] =
                     IF ret < 0
                     THEN Freed([@ EXCEPT !.configures = @ + 1])
                     ELSE [@ EXCEPT !.phase = "Configured", !.configures = @ + 1]]
    /\ last' = [op |-> "configure", g |-> g, args |-> <<>>,
                res |-> IF ret < 0 THEN from_av_err("configuring filter graph", ret)
                        ELSE Ok,
                native |-> <<Called("avfilter_graph_config", ret)>>]
    /\ UNCHANGED <<dicts, heap, smap, iters, decvars, eagain, handles, frame, errCall, errOut>>

\* impl Drop for FilterGraph<T>
Drop(g) ==
    /\ Live(g)
    /\ graphs' = [graphs EXCEPT ![g] = Freed(@)]
    /\ last' = [op |-> "drop", g |-> g, args |-> <<>>, res |-> Ok,
                native |-> <<Called("avfilter_graph_free", 0)>>]
    /\ UNCHANGED <<dicts, heap, smap, iters, decvars, eagain, handles, frame, errCall, errOut>>

(***************************************************************************)
(* raw/filter/graph.rs: FilterGraph<Configured>.                           *)
(***************************************************************************)
\* ABufferSource::submit_frame / VBufferSource::submit_frame
submit_frame(ret) ==
    IF ret < 0 THEN from_av_err("submitting frame to FrameGraph", ret) ELSE Ok

\* ABufferSink::get_frame_into / VBufferSink::get_frame_into
get_frame_into(ret) ==
    IF ret < 0 THEN from_av_err("getting frame from FilterGraph", ret) ELSE Ok

\* FilterOutput::get_frame: Frame::new, then get_frame_into
get_frame(ret) == get_frame_into(ret)

\* the map_err closure of submit_input
submit_input_map_err(e) ==
    IF e.kind = "AVUnknown" /\ e.ret_val = -11 THEN CouldNotAcceptInput ELSE e

\* the map_err closure of get_output_into
get_output_into_map_err(e) ==
    IF e.kind = "AVUnknown" /\ e.ret_val = -11 THEN SubmitMoreInput ELSE e

\* the map_err closure of get_output
get_output_map_err(e) ==
    IF e.kind = "AVUnknown" /\ e.ret_val = -11 THEN SubmitMoreInput ELSE e

\* the checks the three frame operations make on their handle
io_checks(g, h) ==
    IF h.graph_id # graphs[g].graph THEN GraphDoesntOwnHandle
    ELSE IF ~Registered(g, h) THEN FilterNotRegisteredWithGraph(h.name)
    ELSE Ok

\* FilterGraph::submit_input; ret: what av_buffersrc_add_frame_flags answers
SubmitInput(g, input) ==
    /\ graphs[g].phase = "Configured"
    /\ FilterInput(input.filter_type)
    /\ LET call(res, native) ==
               [op |-> "submit_input", g |-> g, args |-> <<input>>, res |-> res,
                native |-> native]
           chk == io_checks(g, input)
       IN  IF chk # Ok THEN last' = call(chk, <<>>)
           ELSE \E ret \in FrameIoRets :
                    last' = call(submit_input_map_err(submit_frame(ret)),
                                 <<Called("av_buffersrc_add_frame_flags", ret)>>)
    /\ UNCHANGED <<dicts, heap, smap, iters, decvars, eagain, graphs, handles, frame, errCall, errOut>>

\* a get_output_into that unreferences the frame before it looks at the
\* handle
GetOutputInto_unref_first(g, output) ==
    /\ graphs[g].phase = "Configured"
    /\ FilterOutput(output.filter_type)
    /\ LET call(res, native) ==
               [op |-> "get_output_into", g |-> g, args |-> <<output, frame>>,
                res |-> res, native |-> native]
           chk == io_checks(g, output)
       IN  IF chk # Ok THEN last' = call(chk, <<>>) /\ frame' = "empty"
           ELSE \E ret \in FrameIoRets :
                    /\ last' = call(get_output_into_map_err(get_frame_into(ret)),
                                    <<Called("av_buffersink_get_frame", ret)>>)
                    /\ frame' = IF ret < 0 THEN "empty" ELSE "data"
    /\ UNCHANGED <<dicts, heap, smap, iters, decvars, eagain, graphs, handles, errCall, errOut>>

\* FilterGraph::get_output_into on the caller's frame; ret: what
\* av_buffersink_get_frame answers
GetOutputInto(g, output) ==
    /\ graphs[g].phase = "Configured"
    /\ FilterOutput(output.filter_type)
    /\ LET call(res, native) ==
               [op |-> "get_output_into", g |-> g, args |-> <<output, frame>>,
                res |-> res, native |-> native]
           chk == io_checks(g, output)
       IN  IF chk # Ok THEN last' = call(chk, <<>>) /\ UNCHANGED frame
           ELSE \E ret \in FrameIoRets :
                    /\ last' = call(get_output_into_map_err(get_frame_into(ret)),
                                    <<Called("av_buffersink_get_frame", ret)>>)
                    \* frame.unref(), then the native call fills it on success
                    /\ frame' = IF ret < 0 THEN "empty" ELSE "data"
    /\ UNCHANGED <<dicts, heap, smap, iters, decvars, eagain, graphs, handles, errCall, errOut>>

\* FilterGraph::get_output; ret: what av_buffersink_get_frame answers
GetOutput(g, output) ==
    /\ graphs[g].phase = "Configured"
    /\ FilterOutput(output.filter_type)
    /\ LET call(res, native) ==
               [op |-> "get_output", g |-> g, args |-> <<output>>, res |-> res,
                native |-> native]
           chk == io_checks(g, output)
       IN  IF chk # Ok THEN last' = call(chk, <<>>)
           ELSE \E ret \in FrameIoRets :
                    last' = call(get_output_map_err(get_frame(ret)),
                                 <<Called("av_buffersink_get_frame", ret)>>)
    /\ UNCHANGED <<dicts, heap, smap, iters, decvars, eagain, graphs, handles, frame, errCall, errOut>>

Next ==
    \/ \E g \in Graphs, a \in Addrs \cup {NullPtr} : New(g, a)
    \/ \E g \in Graphs, t \in FilterTypes : \E name \in NamesOf(t) : Add(g, t, name)
    \/ \E g \in Graphs, src \in handles, dest \in handles, sp \in Pads, dp \in Pads :
          Connect(g, src, sp, dest, dp)
    \/ \E g \in Graphs, ret \in GraphConfigRets : Configure(g, ret)
    \/ \E g \in Graphs : Drop(g)
    \/ \E g \in Graphs, h \in handles : SubmitInput(g, h)
    \/ \E g \in Graphs, h \in handles : GetOutputInto(g, h)
    \/ \E g \in Graphs, h \in handles : GetOutput(g, h)

Spec == Init /\ [][Next]_vars

(***************************************************************************)
(* The error paths of the operations that report a native failure: what    *)
(* the caller gets for a negative native return code.                      *)
(***************************************************************************)
\* negative codes the native library answers
ErrCodes == {av_err(EAGAIN_LINUX), av_err(EAGAIN_BSD), av_err(ENOMEM), av_err(EINVAL),
             AVERROR_EOF, AVERROR_STREAM_NOT_FOUND, AVERROR_INVALIDDATA, AVERROR_BUG}

\* the call sites of Error::from_av_err, each with its context string
TranslatorCalls ==
    {[op |-> "Format::open_input", ctx |-> "opening input format"],
     [op |-> "Format::open_input", ctx |-> "getting stream info"],
     [op |-> "Format::get_next_packet_into", ctx |-> "reading next packet from format"],
     [op |-> "Format::inner_seek", ctx |-> "seeking format"],
     [op |-> "Codec::open_decode", ctx |-> "copying codec parameters"],
     [op |-> "Codec::open_decode", ctx |-> "opening decoder"],
     [op |-> "Codec::submit_packet", ctx |-> "submitting packet to decoder"],
     [op |-> "Codec::get_next_frame_into", ctx |-> "receiving frame from codec"],
     [op |-> "FilterGraph::inner_add", ctx |-> "setting filter parameters"],
     [op |-> "FilterGraph::inner_connect", ctx |-> "linking filters"],
     [op |-> "FilterGraph::configure", ctx |-> "configuring filter graph"],
     [op |-> "FilterGraph::submit_input", ctx |-> "submitting frame to FrameGraph"],
     [op |-> "FilterGraph::get_output_into", ctx |-> "getting frame from FilterGraph"],
     [op |-> "FilterGraph::get_output", ctx |-> "getting frame from FilterGraph"]}

\* Container reports a native failure without the translator
ContainerCalls ==
    {[op |-> "Container::inner_open", ctx |-> "Error while openting input format"],
     [op |-> "Container::inner_open", ctx |-> "Error while fetching stream information"],
     [op |-> "Container::get_next_packet_into",
      ctx |-> "Error while reading packet from Container"]}

\* Codec::get_next_frame_into on a native answer err < 0
receive_frame_err(ctx, err) ==
    IF err = av_err(eagain) THEN SubmitMoreInput ELSE from_av_err(ctx, err)

\* the error the operation of call returns when its native call answers err < 0
op_error(call, err) ==
    IF call.op = "Codec::get_next_frame_into" THEN receive_frame_err(call.ctx, err)
    ELSE IF call.op = "FilterGraph::submit_input" THEN submit_input_map_err(submit_frame(err))
    ELSE IF call.op = "FilterGraph::get_output_into"
         THEN get_output_into_map_err(get_frame_into(err))
    ELSE IF call.op = "FilterGraph::get_output" THEN get_output_map_err(get_frame(err))
    ELSE from_av_err(call.ctx, err)

\* Error::from_av_err applied to a context string and a code
Translate(ctx, err) ==
    /\ errCall' = [op |-> "Error::from_av_err", ctx |-> ctx, err |-> err]
    /\ errOut' = from_av_err(ctx, err)
    /\ UNCHANGED <<dicts, heap, smap, iters, decvars, eagain, graphs, handles, frame, last>>

\* an operation that uses the translator fails in its native call
NativeFailure(call, err) ==
    /\ errCall' = [op |-> call.op, ctx |-> call.ctx, err |-> err]
    /\ errOut' = op_error(call, err)
    /\ UNCHANGED <<dicts, heap, smap, iters, decvars, eagain, graphs, handles, frame, last>>

\* a Container operation fails in its native call
ContainerFailure(call, err) ==
    /\ errCall' = [op |-> call.op, ctx |-> call.ctx, err |-> err]
    /\ errOut' = Unknown(call.ctx)
    /\ UNCHANGED <<dicts, heap, smap, iters, decvars, eagain, graphs, handles, frame, last>>

NextErr ==
    \/ \E call \in TranslatorCalls, err \in ErrCodes : Translate(call.ctx, err)
    \/ \E call \in TranslatorCalls, err \in ErrCodes : NativeFailure(call, err)
    \/ \E call \in ContainerCalls, err \in ErrCodes : ContainerFailure(call, err)

SpecErr == Init /\ [][NextErr]_vars

(***************************************************************************)
(* Properties of the error translation (checked under SpecErr).            *)
(***************************************************************************)
\* the five sentinels, each with the value the translator owes it
SentinelsTranslated ==
    /\ errCall.err = -ENOMEM => errOut = AllocationFailed(errCall.ctx)
    /\ errCall.err = -EINVAL => errOut = InvalidArguments(errCall.ctx)
    /\ errCall.err = AVERROR_EOF => errOut = EoF
    /\ errCall.err = AVERROR_STREAM_NOT_FOUND => errOut = StreamNotFound
    /\ errCall.err = AVERROR_INVALIDDATA => errOut = InvalidData

\* C9 as stated: Error::from_av_err maps ENOMEM, EINVAL, AVERROR_EOF,
\* AVERROR_STREAM_NOT_FOUND and AVERROR_INVALIDDATA to their own values for every
\* context string, and the platform's EAGAIN code to a backpressure value
C9_EagainIsBackpressure ==
    errCall.op = "Error::from_av_err" =>
        /\ SentinelsTranslated
        /\ errCall.err = -eagain => errOut \in {SubmitMoreInput, CouldNotAcceptInput}

\* C9 amended: the five sentinels are mapped to their own values for every context
\* string; the platform's EAGAIN code is no sentinel of Error::from_av_err, which
\* returns it as the generic AVUnknown with the context and the raw code
C9_SentinelsAndEagainFallback ==
    errCall.op = "Error::from_av_err" =>
        /\ SentinelsTranslated
        /\ errCall.err = -eagain => errOut = AVUnknown(errCall.ctx, errCall.err)

\* C9 witness: the translator was given the EAGAIN code of a platform where it
\* is not 11, and every sentinel is within the codes tried
C9_Witness ==
    /\ errCall.op = "Error::from_av_err"
    /\ eagain = EAGAIN_BSD
    /\ errCall.err = -eagain
    /\ errOut.kind = "AVUnknown"
    /\ {-ENOMEM, -EINVAL, AVERROR_EOF, AVERROR_STREAM_NOT_FOUND, AVERROR_INVALIDDATA}
           \subseteq ErrCodes

KnownSentinels == {-ENOMEM, -EINVAL, AVERROR_EOF, AVERROR_STREAM_NOT_FOUND,
                   AVERROR_INVALIDDATA}

SpecificKinds == {"AllocationFailed", "InvalidArguments", "EoF", "StreamNotFound",
                  "InvalidData", "SubmitMoreInput", "CouldNotAcceptInput"}

HandleOps == {"connect", "submit_input", "get_output", "get_output_into"}

FrameOps == {"submit_input", "get_output", "get_output_into"}

\* the handles the call was given
HandlesOf(call) ==
    IF call.op = "connect" THEN {call.args[1], call.args[3]}
    ELSE IF call.op \in FrameOps THEN {call.args[1]}
    ELSE {}

\* C1: while two graphs G1 and G2 are both alive, every operation of G2 that is
\* given a handle minted by G1 (connect with it as source or as destination,
\* submit_input, get_output, get_output_into) returns GraphDoesntOwnHandle and
\* makes no native call
C1_ForeignHandleRejected ==
    (/\ last.op \in HandleOps
     /\ \E h \in HandlesOf(last) : h.minted_by # last.g /\ Live(h.minted_by) /\ Live(last.g))
        => last.res = GraphDoesntOwnHandle /\ last.native = <<>>

\* C1 witness: G2 was asked to connect its own source to a destination handle
\* of G1, which is alive, and refused
C1_Witness ==
    /\ last.op = "connect"
    /\ last.args[1].minted_by = last.g
    /\ last.args[3].minted_by # last.g
    /\ Live(last.args[3].minted_by)
    /\ Live(last.g)
    /\ last.res = GraphDoesntOwnHandle

\* C2 as stated: a handle minted by a graph that has been dropped is rejected
\* with an error by every operation of another graph, also one whose native
\* graph has the address the dropped graph had, and no native call is made
C2_DeadGraphHandleRejected ==
    (/\ last.op \in HandleOps
     /\ \E h \in HandlesOf(last) :
            h.minted_by # last.g /\ graphs[h.minted_by].phase = "Dropped")
        => last.res # Ok /\ last.native = <<>>

\* C3: add and connect happen only on a graph on which configure was never
\* called; the frame operations only on a graph whose configure succeeded;
\* configure is called at most once on a graph and leaves no Unconfigured
\* graph behind; a Configured graph never becomes Unconfigured again
C3_PhaseProtocol ==
    [][/\ last'.op \in {"add", "connect"}
           => graphs[last'.g].phase = "Unconfigured" /\ graphs[last'.g].configures = 0
       /\ last'.op \in FrameOps
           => /\ graphs[last'.g].phase = "Configured"
              /\ graphs[last'.g].configures = 1
       /\ last'.op = "configure"
           => /\ graphs[last'.g].configures = 0
              /\ graphs'[last'.g].configures = 1
              /\ graphs'[last'.g].phase =
                     (IF last'.res = Ok THEN "Configured" ELSE "Dropped")
       /\ \A g \in Graphs :
              /\ graphs[g].phase = "Configured"
                     => graphs'[g].phase \in {"Configured", "Dropped"}
              /\ graphs[g].configures >= 1 => graphs'[g].phase # "Unconfigured"]_vars

\* C3 witness: a graph was configured once and a frame was then pulled from it,
\* while another graph's configure had failed
C3_Witness ==
    /\ last.op = "get_output"
    /\ last.res = Ok
    /\ graphs[last.g].phase = "Configured"
    /\ graphs[last.g].configures = 1
    /\ \E g \in Graphs : graphs[g].phase = "Dropped" /\ graphs[g].configures = 1

\* the handle passes the identity check of graph record gr and names one of its nodes
Resolves(gr, h) == h.graph_id = gr.graph /\ h.filter_id < Len(gr.filters)

\* the native node of gr a resolving handle names
Resolved(gr, h) == gr.nodes[gr.filters[h.filter_id + 1]]

\* pad number pad of the pad array exists and carries no link
PadFree(padarray, pad) == pad < Len(padarray) /\ padarray[pad + 1] = NullLink

\* C4: connect on handles the graph minted, with a source pad that exists and is
\* unlinked and a destination pad index >= the destination's number of input
\* pads, returns InputPadDoesntExist with the destination node's name, its type
\* name and the requested index
C4_MissingInputPadNamed ==
    last.op = "connect" =>
        LET gr == graphs[last.g]
            src == last.args[1]
            sp == last.args[2]
            dst == last.args[3]
            dp == last.args[4]
        IN  (/\ src.minted_by = last.g /\ dst.minted_by = last.g
             /\ Resolves(gr, src) /\ Resolves(gr, dst)
             /\ PadFree(Resolved(gr, src).outputs, sp)
             /\ dp >= Len(Resolved(gr, dst).inputs))
                => last.res = InputPadDoesntExist(Resolved(gr, dst).name,
                                                  Resolved(gr, dst).filter_type, dp)

\* C4 witness: such a connect, with the index equal to the number of input pads
\* of a destination that has input pads
C4_Witness ==
    /\ last.op = "connect"
    /\ last.args[1].minted_by = last.g
    /\ last.args[3].minted_by = last.g
    /\ PadFree(Resolved(graphs[last.g], last.args[1]).outputs, last.args[2])
    /\ Len(Resolved(graphs[last.g], last.args[3]).inputs) = 1
    /\ last.args[4] = 1
    /\ last.res.kind = "InputPadDoesntExist"

\* the kinds of the checks of connect that fail for the call in graph record gr
FailedChecks(gr, src, sp, dst, dp) ==
    IF src.graph_id # gr.graph \/ dst.graph_id # gr.graph THEN {"GraphDoesntOwnHandle"}
    ELSE IF ~Resolves(gr, src) \/ ~Resolves(gr, dst) THEN {"FilterNotRegisteredWithGraph"}
    ELSE (IF PadFree(Resolved(gr, src).outputs, sp) THEN {} ELSE {"OutputPadDoesntExist"})
         \cup (IF PadFree(Resolved(gr, dst).inputs, dp) THEN {} ELSE {"InputPadDoesntExist"})

\* C5: connect calls avfilter_link only when none of its checks fails; when a
\* check fails it returns the error of a failed check, makes no native call and
\* changes no graph
C5_LinkAfterChecks ==
    [][last'.op = "connect" =>
          LET failed == FailedChecks(graphs[last'.g], last'.args[1], last'.args[2],
                                     last'.args[3], last'.args[4])
          IN  /\ last'.native # <<>> => failed = {}
              /\ failed # {} => /\ last'.res.kind \in failed
                                /\ last'.native = <<>>
                                /\ graphs' = graphs]_vars

\* C5 witness: a connect passed all checks, called avfilter_link and linked
C5_Witness ==
    /\ last.op = "connect"
    /\ last.res = Ok
    /\ last.native = <<Called("avfilter_link", 0)>>
    /\ Resolved(graphs[last.g], last.args[1]).outputs[last.args[2] + 1] # NullLink

\* a connect step whose source / destination handle names a pad that is linked
SourcePadLinked(gr, call) ==
    /\ Resolves(gr, call.args[1])
    /\ call.args[2] < Len(Resolved(gr, call.args[1]).outputs)
    /\ Resolved(gr, call.args[1]).outputs[call.args[2] + 1] # NullLink

DestPadLinked(gr, call) ==
    /\ Resolves(gr, call.args[3])
    /\ call.args[4] < Len(Resolved(gr, call.args[3]).inputs)
    /\ Resolved(gr, call.args[3]).inputs[call.args[4] + 1] # NullLink

\* no link of a graph that stays Unconfigured changes or disappears
LinksKept ==
    \A g \in Graphs :
        (graphs[g].phase = "Unconfigured" /\ graphs'[g].phase = "Unconfigured") =>
            \A n \in 1..Len(graphs[g].nodes) :
                /\ \A p \in 1..Len(graphs[g].nodes[n].outputs) :
                       graphs[g].nodes[n].outputs[p] # NullLink =>
                           graphs'[g].nodes[n].outputs[p] = graphs[g].nodes[n].outputs[p]
                /\ \A p \in 1..Len(graphs[g].nodes[n].inputs) :
                       graphs[g].nodes[n].inputs[p] # NullLink =>
                           graphs'[g].nodes[n].inputs[p] = graphs[g].nodes[n].inputs[p]

\* C6 as stated: once a pad is linked, a later connect naming that output pad as
\* its source fails with OutputPadDoesntExist, one naming that input pad as its
\* destination fails with InputPadDoesntExist, and the link is left unchanged
C6_LinkedPadErrors ==
    [][/\ last'.op = "connect" =>
             /\ SourcePadLinked(graphs[last'.g], last')
                    => last'.res.kind = "OutputPadDoesntExist"
             /\ DestPadLinked(graphs[last'.g], last')
                    => last'.res.kind = "InputPadDoesntExist"
       /\ LinksKept]_vars

\* C6 amended: each pad is linked at most once. A later connect that names a linked
\* pad fails and leaves every link unchanged; given two handles that belong to the
\* graph and are registered with it, it fails with OutputPadDoesntExist when its
\* source pad is the linked one, and with InputPadDoesntExist when its
\* destination pad is the linked one and its source pad exists and is unlinked
C6_LinkedPadRefused ==
    [][/\ last'.op = "connect" =>
             LET gr == graphs[last'.g]
                 both == Resolves(gr, last'.args[1]) /\ Resolves(gr, last'.args[3])
             IN  /\ (SourcePadLinked(gr, last') \/ DestPadLinked(gr, last'))
                        => last'.res # Ok /\ graphs' = graphs
                 /\ (both /\ SourcePadLinked(gr, last'))
                        => last'.res.kind = "OutputPadDoesntExist"
                 /\ (both /\ DestPadLinked(gr, last')
                          /\ PadFree(Resolved(gr, last'.args[1]).outputs, last'.args[2]))
                        => last'.res.kind = "InputPadDoesntExist"
       /\ LinksKept]_vars

\* C6 witness: a connect named a linked input pad as its destination, with a
\* free source pad, and was refused
C6_Witness ==
    /\ last.op = "connect"
    /\ DestPadLinked(graphs[last.g], last)
    /\ PadFree(Resolved(graphs[last.g], last.args[1]).outputs, last.args[2])
    /\ last.res.kind = "InputPadDoesntExist"

\* the code the native frame call answered, for a frame operation that made it
NativeRet == last.native[1].ret

\* C7 as stated: submit_input returns CouldNotAcceptInput whenever the native
\* input node answers the platform's EAGAIN, and any other native error as the
\* translator gives it
C7_EagainIsCouldNotAcceptInput ==
    (last.op = "submit_input" /\ last.native # <<>> /\ NativeRet < 0) =>
        IF NativeRet = -eagain THEN last.res = CouldNotAcceptInput
        ELSE last.res = from_av_err("submitting frame to FrameGraph", NativeRet)

\* C8 as stated: get_output and get_output_into return SubmitMoreInput whenever
\* the native output node answers the platform's EAGAIN, and the two give the
\* same outcome for the same native answer
C8_EagainIsSubmitMoreInput ==
    /\ (last.op \in {"get_output", "get_output_into"} /\ last.native # <<>>
            /\ NativeRet = -eagain)
           => last.res = SubmitMoreInput
    /\ \A ret \in FrameIoRets :
           get_output_map_err(get_frame(ret)) = get_output_into_map_err(get_frame_into(ret))

(***************************************************************************)
(* Bounds of the decoding side.                                            *)
(***************************************************************************)
\* number of packets an input holds
MaxPackets == 2
\* number of streams an input holds
MaxStreams == 2

(***************************************************************************)
(* The native demuxer and decoder, by their documented contracts           *)
(* (libavformat av_read_frame / av_find_best_stream, libavcodec            *)
(* avcodec_send_packet / avcodec_receive_frame, av_packet_unref,           *)
(* av_frame_unref).                                                        *)
(***************************************************************************)
AVERROR_DECODER_NOT_FOUND == ffaverr(248, 68, 69, 67)

MediaTypes == {"Audio", "Video"}

\* sequences over S of length at most n
SeqsUpTo(S, n) == UNION {[1..k -> S] : k \in 0..n}

\* the inputs: a list of streams (their media types) and the packets in
\* container order, each naming the index of its stream
Inputs(api) ==
    {f \in [api : {api}, streams : SeqsUpTo(MediaTypes, MaxStreams),
            packets : SeqsUpTo(0..(MaxStreams - 1), MaxPackets), pos : {0}] :
        \A i \in 1..Len(f.packets) : f.packets[i] < Len(f.streams)}

\* av_packet_unref: releases the data and resets the fields to their defaults
av_packet_unref(p) == [p EXCEPT !.data = FALSE, !.stream_index = 0]

\* av_frame_unref: releases the data
av_frame_unref(f) == [f EXCEPT !.data = FALSE]

\* av_read_frame: the next packet in container order, AVERROR_EOF after the
\* last one, or a read error; on an error the packet is left blank
av_read_frame(f, p) ==
    (IF f.pos < Len(f.packets)
     THEN {[ret |-> 0, fmt |-> [f EXCEPT !.pos = f.pos + 1],
            pkt |-> [p EXCEPT !.data = TRUE, !.stream_index = f.packets[f.pos + 1]]]}
     ELSE {[ret |-> AVERROR_EOF, fmt |-> f, pkt |-> av_packet_unref(p)]})
    \cup {[ret |-> AVERROR_INVALIDDATA, fmt |-> f, pkt |-> av_packet_unref(p)]}

\* av_find_best_stream for media type T: the index of a stream of that type,
\* AVERROR_STREAM_NOT_FOUND when there is none, AVERROR_DECODER_NOT_FOUND
\* when streams were found but no decoder for them
av_find_best_stream(f, T) ==
    LET found == {i \in 0..(Len(f.streams) - 1) : f.streams[i + 1] = T}
    IN  IF found = {} THEN {AVERROR_STREAM_NOT_FOUND}
        ELSE found \cup {AVERROR_DECODER_NOT_FOUND}

\* codes other than EAGAIN and EOF a decoder call can fail with
DecodeErrs == {AVERROR_INVALIDDATA, av_err(EAGAIN_LINUX), av_err(EAGAIN_BSD)}
              \ {av_err(eagain)}

\* avcodec_send_packet: a packet without data starts draining; otherwise the
\* packet is accepted (and any number of the frames held back becomes
\* ready), refused with EAGAIN while output is pending, or fails
avcodec_send_packet(c, p) ==
    IF c.draining THEN {[ret |-> AVERROR_EOF, codec |-> c]}
    ELSE IF ~p.data
    THEN {[ret |-> 0, codec |-> [c EXCEPT !.draining = TRUE, !.buffered = 0,
                                          !.ready = c.ready + c.buffered]]}
    ELSE {[ret |-> 0, codec |-> [c EXCEPT !.buffered = c.buffered + 1 - k,
                                          !.ready = c.ready + k]] :
             k \in 0..(c.buffered + 1)}
         \cup (IF c.ready > 0 THEN {[ret |-> av_err(eagain), codec |-> c]} ELSE {})
         \cup {[ret |-> AVERROR_INVALIDDATA, codec |-> c]}

\* avcodec_receive_frame: unreferences the frame, then gives a ready frame,
\* EAGAIN when more input is needed, AVERROR_EOF when drained, or fails
avcodec_receive_frame(c, f) ==
    (IF c.ready > 0
     THEN {[ret |-> 0, codec |-> [c EXCEPT !.ready = c.ready - 1],
            frm |-> [f EXCEPT !.data = TRUE]]}
     ELSE IF c.draining
     THEN {[ret |-> AVERROR_EOF, codec |-> c, frm |-> av_frame_unref(f)]}
     ELSE {[ret |-> av_err(eagain), codec |-> c, frm |-> av_frame_unref(f)]})
    \cup {[ret |-> e, codec |-> c, frm |-> av_frame_unref(f)] : e \in DecodeErrs}

(***************************************************************************)
(* raw/packet.rs, raw/frame.rs, raw/format.rs, raw/container.rs,           *)
(* raw/codec.rs: the operations, as functions from the objects they are    *)
(* given to the set of outcomes the native answers allow.                  *)
(***************************************************************************)
\* an unref that frees the shell together with the data it held
Packet_unref_frees(p) == [p EXCEPT !.alloc = ~p.data, !.data = FALSE]

\* Packet::unref
Packet_unref(p) == av_packet_unref(p)

\* Frame::unref
Frame_unref(f) == av_frame_unref(f)

\* Format::get_next_packet_into
Format_get_next_packet_into(f, p) ==
    {[res |-> IF o.ret < 0
              THEN from_av_err("reading next packet from format", o.ret) ELSE Ok,
      fmt |-> o.fmt, pkt |-> o.pkt, native |-> <<Called("av_read_frame", o.ret)>>] :
        o \in av_read_frame(f, Packet_unref(p))}

\* Container::get_next_packet_into
Container_get_next_packet_into(f, p) ==
    {[res |-> IF o.ret < 0
              THEN Unknown("Error while reading packet from Container") ELSE Ok,
      fmt |-> o.fmt, pkt |-> o.pkt, native |-> <<Called("av_read_frame", o.ret)>>] :
        o \in av_read_frame(f, Packet_unref(p))}

\* get_next_packet_into of the type the input was opened as
get_next_packet_into(f, p) ==
    IF f.api = "Container" THEN Container_get_next_packet_into(f, p)
    ELSE Format_get_next_packet_into(f, p)

\* Stream::try_as_type::<T> on the stream at index idx
try_as_type(f, idx, T) ==
    IF f.streams[idx + 1] = T
    THEN [kind |-> "Some", index |-> idx, media_type |-> f.streams[idx + 1]]
    ELSE [kind |-> "None", index |-> 0, media_type |-> ""]

\* get_best_stream with the two expected codes joined by `or`
get_best_stream_or(f, T, idx) ==
    IF idx < 0
    THEN IF idx # AVERROR_STREAM_NOT_FOUND \/ idx # AVERROR_DECODER_NOT_FOUND
         THEN [kind |-> "panic", index |-> 0, media_type |-> ""]
         ELSE [kind |-> "None", index |-> 0, media_type |-> ""]
    ELSE try_as_type(f, idx, T)

\* Format::get_best_stream::<T>, idx being the answer of av_find_best_stream
get_best_stream(f, T, idx) ==
    IF idx < 0
    THEN IF idx # AVERROR_STREAM_NOT_FOUND /\ idx # AVERROR_DECODER_NOT_FOUND
         THEN [kind |-> "panic", index |-> 0, media_type |-> ""]
         ELSE [kind |-> "None", index |-> 0, media_type |-> ""]
    ELSE try_as_type(f, idx, T)

\* submit_packet without the stream index check
Codec_submit_packet_no_check(c, p) ==
    {[res |-> IF o.ret < 0
              THEN from_av_err("submitting packet to decoder", o.ret) ELSE Ok,
      codec |-> o.codec,
      pkt |-> IF o.ret < 0 THEN p ELSE Packet_unref(p),
      native |-> <<Called("avcodec_send_packet", o.ret)>>] :
        o \in avcodec_send_packet(c, p)}

\* submit_packet without the final packet.unref()
Codec_submit_packet_keeps_data(c, p) ==
    IF p.stream_index # c.stream_index
    THEN {[res |-> PacketFromInvalidStream, codec |-> c, pkt |-> p, native |-> <<>>]}
    ELSE {[res |-> IF o.ret < 0
                   THEN from_av_err("submitting packet to decoder", o.ret) ELSE Ok,
           codec |-> o.codec, pkt |-> p,
           native |-> <<Called("avcodec_send_packet", o.ret)>>] :
             o \in avcodec_send_packet(c, p)}

\* Codec::submit_packet
Codec_submit_packet(c, p) ==
    IF p.stream_index # c.stream_index
    THEN {[res |-> PacketFromInvalidStream, codec |-> c, pkt |-> p, native |-> <<>>]}
    ELSE {[res |-> IF o.ret < 0
                   THEN from_av_err("submitting packet to decoder", o.ret) ELSE Ok,
           codec |-> o.codec,
           pkt |-> IF o.ret < 0 THEN p ELSE Packet_unref(p),
           native |-> <<Called("avcodec_send_packet", o.ret)>>] :
             o \in avcodec_send_packet(c, p)}

\* get_next_frame_into without the EAGAIN comparison
Codec_get_next_frame_into_untranslated(c, f) ==
    {[res |-> IF o.ret < 0
              THEN from_av_err("receiving frame from codec", o.ret) ELSE Ok,
      codec |-> o.codec, frm |-> o.frm,
      native |-> <<Called("avcodec_receive_frame", o.ret)>>] :
        o \in avcodec_receive_frame(c, f)}

\* Codec::get_next_frame_into
Codec_get_next_frame_into(c, f) ==
    {[res |-> IF o.ret < 0
              THEN receive_frame_err("receiving frame from codec", o.ret) ELSE Ok,
      codec |-> o.codec, frm |-> o.frm,
      native |-> <<Called("avcodec_receive_frame", o.ret)>>] :
        o \in avcodec_receive_frame(c, f)}

\* Codec::get_next_frame: Frame::new, then get_next_frame_into
Codec_get_next_frame(c) == Codec_get_next_frame_into(c, NewFrame)

(***************************************************************************)
(* The raw demuxing / decoding interface, its operations called in any     *)
(* order on one input, one Packet, one Codec and one Frame.                *)
(***************************************************************************)
\* the record of a call: its name, arguments as they were, result and the
\* native calls it made
RawOp(op, args, res, native) ==
    [op |-> op, g |-> 0, args |-> args, res |-> res, native |-> native]

\* the graph and translator side is not used here
GraphIdle ==
    /\ graphs = [g \in Graphs |-> NoGraph]
    /\ handles = {}
    /\ frame = "empty"
    /\ errCall = [op |-> "none", ctx |-> "", err |-> 0]
    /\ errOut = Ok

InitRaw ==
    /\ eagain \in EagainValues
    /\ GraphIdle
    /\ dicts = <<>>
    /\ heap = <<>>
    /\ smap = [state |-> "none", map |-> {}, src |-> <<>>]
    /\ iters = <<>>
    /\ last = NoOp
    /\ fmt \in Inputs("Format") \cup Inputs("Container")
    /\ pkt = NewPacket
    /\ codec = NoCodec
    /\ frm = NewFrame
    /\ run = NotRunning

\* Codec::open_decode on the stream at index idx
open_decode(idx, decoder, decoder_ctx, err1, err2) ==
    IF decoder = NullPtr
    THEN [res |-> ResourceNotFound("decoder"), codec |-> NoCodec]
    ELSE IF decoder_ctx = NullPtr
    THEN [res |-> AllocationFailed("initializing decoder context"), codec |-> NoCodec]
    ELSE IF err1 < 0
    THEN [res |-> from_av_err("copying codec parameters", err1), codec |-> NoCodec]
    ELSE IF err2 < 0
    THEN [res |-> from_av_err("opening decoder", err2), codec |-> NoCodec]
    ELSE [res |-> Ok, codec |-> [NoCodec EXCEPT !.open = TRUE, !.stream_index = idx]]

OpenDecode(idx) ==
    /\ fmt.api = "Format"
    /\ idx < Len(fmt.streams)
    /\ ~codec.open
    /\ \E o \in {open_decode(idx, NullPtr, NullPtr, 0, 0),
                 open_decode(idx, 1, NullPtr, 0, 0),
                 open_decode(idx, 1, 1, av_err(EINVAL), 0),
                 open_decode(idx, 1, 1, 0, av_err(EINVAL)),
                 open_decode(idx, 1, 1, 0, 0)} :
          /\ codec' = o.codec
          /\ last' = RawOp("Codec::open_decode", <<idx>>, o.res, <<>>)
    /\ UNCHANGED <<dicts, heap, smap, iters, eagain, graphs, handles, frame, errCall, errOut, fmt, pkt, frm, run>>

\* Format / Container ::get_next_packet_into with the caller's Packet
GetNextPacketInto ==
    /\ fmt.api # "none"
    /\ \E o \in get_next_packet_into(fmt, pkt) :
          /\ fmt' = o.fmt
          /\ pkt' = o.pkt
          /\ last' = RawOp("get_next_packet_into", <<pkt>>, o.res, o.native)
    /\ UNCHANGED <<dicts, heap, smap, iters, eagain, graphs, handles, frame, errCall, errOut, codec, frm, run>>

\* Format / Container ::get_next_packet: Packet::new, get_next_packet_into; the
\* caller gets the new Packet on Ok only
GetNextPacket ==
    /\ fmt.api # "none"
    /\ \E o \in get_next_packet_into(fmt, NewPacket) :
          /\ fmt' = o.fmt
          /\ pkt' = IF o.res = Ok THEN o.pkt ELSE pkt
          /\ last' = RawOp("get_next_packet", <<NewPacket>>, o.res, o.native)
    /\ UNCHANGED <<dicts, heap, smap, iters, eagain, graphs, handles, frame, errCall, errOut, codec, frm, run>>

\* Codec::submit_packet with the caller's Packet
SubmitPacket ==
    /\ codec.open
    /\ \E o \in Codec_submit_packet(codec, pkt) :
          /\ codec' = o.codec
          /\ pkt' = o.pkt
          /\ last' = RawOp("submit_packet", <<pkt, codec>>, o.res, o.native)
    /\ UNCHANGED <<dicts, heap, smap, iters, eagain, graphs, handles, frame, errCall, errOut, fmt, frm, run>>

\* Codec::get_next_frame_into with the caller's Frame
GetNextFrameInto ==
    /\ codec.open
    /\ \E o \in Codec_get_next_frame_into(codec, frm) :
          /\ codec' = o.codec
          /\ frm' = o.frm
          /\ last' = RawOp("get_next_frame_into", <<frm, codec>>, o.res, o.native)
    /\ UNCHANGED <<dicts, heap, smap, iters, eagain, graphs, handles, frame, errCall, errOut, fmt, pkt, run>>

\* Codec::get_next_frame; the caller gets the new Frame on Ok only
GetNextFrame ==
    /\ codec.open
    /\ \E o \in Codec_get_next_frame(codec) :
          /\ codec' = o.codec
          /\ frm' = IF o.res = Ok THEN o.frm ELSE frm
          /\ last' = RawOp("get_next_frame", <<NewFrame, codec>>, o.res, o.native)
    /\ UNCHANGED <<dicts, heap, smap, iters, eagain, graphs, handles, frame, errCall, errOut, fmt, pkt, run>>

\* Packet::unref on the caller's Packet
PacketUnref ==
    /\ pkt' = Packet_unref(pkt)
    /\ last' = RawOp("Packet::unref", <<pkt>>, Ok, <<Called("av_packet_unref", 0)>>)
    /\ UNCHANGED <<dicts, heap, smap, iters, eagain, graphs, handles, frame, errCall, errOut, fmt, codec, frm, run>>

\* Frame::unref on the caller's Frame
FrameUnref ==
    /\ frm' = Frame_unref(frm)
    /\ last' = RawOp("Frame::unref", <<frm>>, Ok, <<Called("av_frame_unref", 0)>>)
    /\ UNCHANGED <<dicts, heap, smap, iters, eagain, graphs, handles, frame, errCall, errOut, fmt, pkt, codec, run>>

\* Format::get_best_stream::<T>
GetBestStream(T) ==
    /\ fmt.api = "Format"
    /\ \E idx \in av_find_best_stream(fmt, T) :
          last' = RawOp("get_best_stream", <<T>>, get_best_stream(fmt, T, idx),
                        <<Called("av_find_best_stream", idx)>>)
    /\ UNCHANGED <<dicts, heap, smap, iters, eagain, graphs, handles, frame, errCall, errOut, decvars>>

NextRaw ==
    \/ \E idx \in 0..(MaxStreams - 1) : OpenDecode(idx)
    \/ GetNextPacketInto
    \/ GetNextPacket
    \/ SubmitPacket
    \/ GetNextFrameInto
    \/ GetNextFrame
    \/ PacketUnref
    \/ FrameUnref
    \/ \E T \in MediaTypes : GetBestStream(T)

SpecRaw == InitRaw /\ [][NextRaw]_vars

(***************************************************************************)
(* Properties of the raw demuxing / decoding interface (checked under      *)
(* SpecRaw).                                                               *)
(***************************************************************************)
\* the Packet / Frame and the Codec as they were when the last call was made
ArgPacket == last.args[1]
ArgFrame == last.args[1]
ArgCodec == last.args[2]

\* C11: submit_packet given a Packet whose stream_index differs from the
\* stream index the Codec was opened with returns PacketFromInvalidStream,
\* makes no native call, and leaves the decoder and the Packet as they were.
C11_WrongStreamRejected ==
    (last.op = "submit_packet" /\ ArgPacket.stream_index # ArgCodec.stream_index)
    => /\ last.res = PacketFromInvalidStream
       /\ last.native = <<>>
       /\ codec = ArgCodec
       /\ pkt = ArgPacket

C11_Witness ==
    /\ last.op = "submit_packet"
    /\ ArgPacket.stream_index # ArgCodec.stream_index
    /\ ArgPacket.data
    /\ last.res = PacketFromInvalidStream
    /\ pkt.data

\* C12: after submit_packet returns Ok the caller's Packet holds no data and
\* is still allocated.
C12_PacketEmptyAfterSubmit ==
    (last.op = "submit_packet" /\ last.res = Ok)
    => /\ pkt.alloc
       /\ ~pkt.data
       /\ pkt = NewPacket

C12_Witness ==
    /\ last.op = "submit_packet"
    /\ last.res = Ok
    /\ ArgPacket.data
    /\ ~pkt.data

\* C13: Codec::get_next_frame and get_next_frame_into return SubmitMoreInput
\* exactly when the native decoder answers the platform's EAGAIN; every other
\* negative answer comes back as its translation (AVERROR_EOF as EoF), and a
\* non-negative answer as Ok.
C13_BackpressureIsEagain ==
    last.op \in {"get_next_frame", "get_next_frame_into"}
    => LET ret == last.native[1].ret
       IN  /\ last.res = SubmitMoreInput <=> ret = -eagain
           /\ last.res = EoF <=> ret = AVERROR_EOF
           /\ last.res = Ok <=> ret >= 0
           /\ (ret < 0 /\ ret # -eagain)
              => last.res = from_av_err("receiving frame from codec", ret)

C13_Witness ==
    /\ last.op = "get_next_frame"
    /\ eagain = EAGAIN_BSD
    /\ last.native[1].ret = -EAGAIN_BSD
    /\ last.res = SubmitMoreInput

\* C18 as stated: reading past the last packet is reported as EoF by
\* get_next_packet and get_next_packet_into of Format and of Container, and
\* the caller's Packet of get_next_packet_into then holds no data.
C18_PastTheEndIsEoF ==
    (/\ last.op \in {"get_next_packet", "get_next_packet_into"}
     /\ last.native[1].ret = AVERROR_EOF)
    => /\ last.res = EoF
       /\ last.op = "get_next_packet_into" => ~pkt.data

\* C19: get_best_stream::<T> does not panic, returns None whenever the input
\* holds no stream of media type T, and a stream it returns is of type T.
C19_BestStreamOfType ==
    last.op = "get_best_stream"
    => LET T == last.args[1]
       IN  /\ last.res.kind # "panic"
           /\ (\A i \in 1..Len(fmt.streams) : fmt.streams[i] # T)
              => last.res.kind = "None"
           /\ last.res.kind = "Some"
              => /\ last.res.index < Len(fmt.streams)
                 /\ fmt.streams[last.res.index + 1] = T
                 /\ last.res.media_type = T

C19_Witness ==
    /\ last.op = "get_best_stream"
    /\ last.args[1] = "Video"
    /\ fmt.streams = <<"Audio">>
    /\ last.res.kind = "None"

\* C20: unref of a Packet or a Frame in any state leaves it allocated and
\* without data, and unref of one that holds no data changes nothing, so a
\* second unref leaves what the first one left.
C20_UnrefIdempotent ==
    /\ last.op = "Packet::unref"
       => /\ pkt.alloc
          /\ ~pkt.data
          /\ ~ArgPacket.data => pkt = ArgPacket
    /\ last.op = "Frame::unref"
       => /\ frm.alloc
          /\ ~frm.data
          /\ ~ArgFrame.data => frm = ArgFrame

C20_Witness ==
    /\ last.op = "Packet::unref"
    /\ fmt.pos > 0
    /\ ~ArgPacket.data
    /\ pkt = ArgPacket

(***************************************************************************)
(* decode/simple.rs: SimpleDecoder.  A call of get_next_frame,             *)
(* get_next_frame_into or Iterator::next runs the loop one call at a time: *)
(* run.pc is the call of the loop body that comes next, run.log the calls  *)
(* made so far by the running (or the last) call, run.res its result.      *)
(***************************************************************************)
\* Option::Some / Option::None
Some(x) == [kind |-> "Some", value |-> x]
None == [kind |-> "None"]

\* SimpleDecoder::from_format_with_stream succeeded: the input is open, the
\* Codec is open for the selected stream, the Packet is new
InitSimple ==
    /\ eagain \in EagainValues
    /\ GraphIdle
    /\ dicts = <<>>
    /\ heap = <<>>
    /\ smap = [state |-> "none", map |-> {}, src |-> <<>>]
    /\ iters = <<>>
    /\ last = NoOp
    /\ fmt \in Inputs("Format")
    /\ \E idx \in 0..(MaxStreams - 1) :
          /\ idx < Len(fmt.streams)
          /\ codec = open_decode(idx, 1, 1, 0, 0).codec
    /\ pkt = NewPacket
    /\ frm = NewFrame
    /\ run = NotRunning

\* one call made by the loop and its result
Did(ev, res) == [ev |-> ev, res |-> res]

\* match on self.codec.get_next_frame(): Ok returns, SubmitMoreInput goes on
\* to read a packet, any other error returns
sd_after_ask(res) ==
    IF res = Ok THEN "return" ELSE IF res = SubmitMoreInput THEN "read" ELSE "return"

\* self.fmt.get_next_packet_into(&mut self.packet)?
sd_after_read(res) == IF res = Ok THEN "submit" ELSE "return"

\* a loop that reads the next packet right after a submit
sd_after_submit_reads_on(res) == IF res = Ok THEN "read" ELSE "return"

\* self.codec.submit_packet(&mut self.packet)? and back to the top of the loop
sd_after_submit(res) == IF res = Ok THEN "ask" ELSE "return"

\* Iterator::next: the result of get_next_frame as an Option
iterator_next(res) == IF res = EoF THEN None ELSE Some(res)

\* what the running call returns for the result res of its loop
sd_result(api, res) == IF api = "next" THEN iterator_next(res) ELSE res

\* the loop after a call with result res whose continuation is to
SdStep(ev, res, to) ==
    run' = [run EXCEPT !.pc = IF to = "return" THEN "idle" ELSE to,
                       !.log = Append(run.log, Did(ev, res)),
                       !.res = IF to = "return" THEN sd_result(run.api, res)
                               ELSE run.res,
                       !.frames = IF to = "return" /\ res = Ok
                                  THEN run.frames + 1 ELSE run.frames]

\* the caller calls get_next_frame, get_next_frame_into or next
SdCall(api) ==
    /\ run.pc = "idle"
    /\ run' = [run EXCEPT !.pc = "ask", !.api = api, !.log = <<>>, !.res = Ok]
    /\ UNCHANGED <<dicts, heap, smap, iters, eagain, graphs, handles, frame, last, errCall, errOut,
                   fmt, pkt, codec, frm>>

\* self.codec.get_next_frame() / get_next_frame_into(frame)
SdAsk ==
    /\ run.pc = "ask"
    /\ \E o \in IF run.api = "get_next_frame_into"
                THEN Codec_get_next_frame_into(codec, frm)
                ELSE Codec_get_next_frame(codec) :
          /\ codec' = o.codec
          /\ frm' = IF run.api = "get_next_frame_into" \/ o.res = Ok THEN o.frm ELSE frm
          /\ SdStep("ask", o.res, sd_after_ask(o.res))
    /\ UNCHANGED <<dicts, heap, smap, iters, eagain, graphs, handles, frame, last, errCall, errOut, fmt, pkt>>

\* self.fmt.get_next_packet_into(&mut self.packet)
SdRead ==
    /\ run.pc = "read"
    /\ \E o \in Format_get_next_packet_into(fmt, pkt) :
          /\ fmt' = o.fmt
          /\ pkt' = o.pkt
          /\ SdStep("read", o.res, sd_after_read(o.res))
    /\ UNCHANGED <<dicts, heap, smap, iters, eagain, graphs, handles, frame, last, errCall, errOut, codec, frm>>

\* self.codec.submit_packet(&mut self.packet)
SdSubmit ==
    /\ run.pc = "submit"
    /\ \E o \in Codec_submit_packet(codec, pkt) :
          /\ codec' = o.codec
          /\ pkt' = o.pkt
          /\ SdStep("submit", o.res, sd_after_submit(o.res))
    /\ UNCHANGED <<dicts, heap, smap, iters, eagain, graphs, handles, frame, last, errCall, errOut, fmt, frm>>

NextSimple ==
    \/ \E api \in {"get_next_frame", "get_next_frame_into", "next"} : SdCall(api)
    \/ SdAsk
    \/ SdRead
    \/ SdSubmit

SpecSimple == InitSimple /\ [][NextSimple]_vars

(***************************************************************************)
(* Properties of SimpleDecoder (checked under SpecSimple).                 *)
(***************************************************************************)
\* the running call has returned
Returned == run.pc = "idle" /\ run.log # <<>>

\* the call that returned signalled the end of the stream
EndSignalled == Returned /\ run.res \in {EoF, None}

\* C14: in a call of SimpleDecoder, the decoder is asked first; a packet is
\* read only directly after the decoder answered SubmitMoreInput, and one read
\* follows each such answer; a packet is submitted only directly after it was
\* read; a frame obtained ends the call at once with Ok.
C14_OnePacketPerBackpressure ==
    LET log == run.log
    IN  /\ log # <<>> => log[1].ev = "ask"
        /\ run.pc = "read" => log[Len(log)] = Did("ask", SubmitMoreInput)
        /\ \A i \in 1..Len(log) :
              /\ log[i].ev = "read"
                 => i > 1 /\ log[i - 1] = Did("ask", SubmitMoreInput)
              /\ log[i].ev = "submit"
                 => i > 1 /\ log[i - 1] = Did("read", Ok)
              /\ (log[i] = Did("ask", SubmitMoreInput) /\ i < Len(log))
                 => log[i + 1].ev = "read"
              /\ (log[i].ev = "ask" /\ i > 1)
                 => log[i - 1] = Did("submit", Ok)
              /\ log[i] = Did("ask", Ok)
                 => /\ i = Len(log)
                    /\ run.pc = "idle"
                    /\ run.res = sd_result(run.api, Ok)

C14_Witness ==
    /\ Returned
    /\ run.res = Ok
    /\ Len(run.log) = 7
    /\ run.log[2] = Did("read", Ok)
    /\ run.log[4] = Did("ask", SubmitMoreInput)
    /\ run.log[5] = Did("read", Ok)

\* C15 as stated: SimpleDecoder signals the end (EoF, None from the Iterator)
\* only when the container has reported EOF and the decoder is fully drained:
\* no frame of a submitted packet is still held by the decoder.
C15_EndOnlyWhenDrained ==
    EndSignalled
    => /\ fmt.pos = Len(fmt.packets)
       /\ codec.buffered = 0
       /\ codec.ready = 0

\* C17 as stated: a packet that belongs to another stream never makes a call
\* of SimpleDecoder fail.
C17_OtherStreamsSkipped ==
    Returned => run.res \notin {PacketFromInvalidStream, Some(PacketFromInvalidStream)}

(***************************************************************************)
(* fftest/src/main.rs: the submit / drain loop of main (lines 65-100),     *)
(* started after the inputs, decoders and the graph have been set up.      *)
(* fmt and codec hold the inputs and decoders of in_seqs, run.seq_pos is   *)
(* seq_pos, run.pc the statement of the loop that comes next, run.gq the   *)
(* number of frames the configured graph holds, run.frames the frames      *)
(* printed.                                                                *)
(***************************************************************************)
\* in_seqs.len()
NumInputs == 2

\* the answers of a native call that the backpressure contract names:
\* success, EAGAIN and end of file
InContract(outcomes) ==
    {o \in outcomes :
        \A i \in 1..Len(o.native) : o.native[i].ret \in {0, av_err(eagain), AVERROR_EOF}}

\* an input of main with the decoder opened for its best audio stream
LoopInputs ==
    {io \in [fmt : Inputs("Format"), idx : 0..(MaxStreams - 1)] :
        io.idx \in av_find_best_stream(io.fmt, "Audio")}

InitMain ==
    /\ eagain \in EagainValues
    /\ GraphIdle
    /\ dicts = <<>>
    /\ heap = <<>>
    /\ smap = [state |-> "none", map |-> {}, src |-> <<>>]
    /\ iters = <<>>
    /\ last = NoOp
    /\ \E ins \in [1..NumInputs -> LoopInputs] :
          /\ fmt = [i \in 1..NumInputs |-> ins[i].fmt]
          /\ codec = [i \in 1..NumInputs |-> open_decode(ins[i].idx, 1, 1, 0, 0).codec]
    /\ pkt = NewPacket
    /\ frm = NewFrame
    /\ run = [pc |-> "get_output", api |-> "main", log |-> <<>>, res |-> Ok,
              frames |-> 0, seq_pos |-> 0, gq |-> 0]

\* av_buffersink_get_frame on the sink of the configured graph: a frame when
\* the graph gives one, EAGAIN when it wants more input
av_buffersink_get_frame(gq) == IF gq > 0 THEN {0, av_err(eagain)} ELSE {av_err(eagain)}

\* match fg.get_output(&sink)
main_after_output(res) ==
    IF res = SubmitMoreInput THEN "read"
    ELSE IF res = EoF THEN "done"
    ELSE IF res = Ok THEN "get_output"
    ELSE "panic"

\* match item.0.get_next_packet()
main_after_read(res, seq_pos) ==
    IF res = EoF THEN (IF seq_pos + 1 < NumInputs THEN "get_output" ELSE "done")
    ELSE IF res = Ok THEN "submit"
    ELSE "panic"

\* match item.1.submit_packet(&mut pkt)
main_after_submit(res) ==
    IF res = Ok THEN "decode"
    ELSE IF res = PacketFromInvalidStream THEN "get_output"
    ELSE "panic"

\* item.1.get_next_frame().unwrap()
main_after_decode(res) == IF res = Ok THEN "feed" ELSE "panic"

\* fg.submit_input(..).unwrap()
main_after_feed(res) == IF res = Ok THEN "get_output" ELSE "panic"

\* fg.get_output(&sink)
MainGetOutput ==
    /\ run.pc = "get_output"
    /\ \E ret \in av_buffersink_get_frame(run.gq) :
          LET res == get_output_map_err(get_frame(ret))
          IN  run' = [run EXCEPT !.pc = main_after_output(res), !.res = res,
                                 !.gq = IF ret = 0 THEN run.gq - 1 ELSE run.gq,
                                 !.frames = IF res = Ok THEN run.frames + 1
                                            ELSE run.frames]
    /\ UNCHANGED <<dicts, heap, smap, iters, eagain, graphs, handles, frame, last, errCall, errOut,
                   fmt, pkt, codec, frm>>

\* item.0.get_next_packet()
MainRead ==
    /\ run.pc = "read"
    /\ LET i == run.seq_pos + 1
       IN  \E o \in InContract(get_next_packet_into(fmt[i], NewPacket)) :
              /\ fmt' = [fmt EXCEPT ![i] = o.fmt]
              /\ pkt' = IF o.res = Ok THEN o.pkt ELSE pkt
              /\ run' = [run EXCEPT !.pc = main_after_read(o.res, run.seq_pos),
                                    !.res = o.res,
                                    !.seq_pos = IF o.res = EoF THEN run.seq_pos + 1
                                                ELSE run.seq_pos]
    /\ UNCHANGED <<dicts, heap, smap, iters, eagain, graphs, handles, frame, last, errCall, errOut, codec, frm>>

\* item.1.submit_packet(&mut pkt)
MainSubmit ==
    /\ run.pc = "submit"
    /\ LET i == run.seq_pos + 1
       IN  \E o \in InContract(Codec_submit_packet(codec[i], pkt)) :
              /\ codec' = [codec EXCEPT ![i] = o.codec]
              /\ pkt' = o.pkt
              /\ run' = [run EXCEPT !.pc = main_after_submit(o.res), !.res = o.res]
    /\ UNCHANGED <<dicts, heap, smap, iters, eagain, graphs, handles, frame, last, errCall, errOut, fmt, frm>>

\* item.1.get_next_frame().unwrap()
MainDecode ==
    /\ run.pc = "decode"
    /\ LET i == run.seq_pos + 1
       IN  \E o \in InContract(Codec_get_next_frame(codec[i])) :
              /\ codec' = [codec EXCEPT ![i] = o.codec]
              /\ frm' = IF o.res = Ok THEN o.frm ELSE frm
              /\ run' = [run EXCEPT !.pc = main_after_decode(o.res), !.res = o.res]
    /\ UNCHANGED <<dicts, heap, smap, iters, eagain, graphs, handles, frame, last, errCall, errOut, fmt, pkt>>

\* fg.submit_input(&item.2, &mut frame).unwrap(); the native source accepts
\* the frame
MainFeed ==
    /\ run.pc = "feed"
    /\ LET res == submit_input_map_err(submit_frame(0))
       IN  run' = [run EXCEPT !.pc = main_after_feed(res), !.res = res,
                              !.gq = run.gq + 1]
    /\ UNCHANGED <<dicts, heap, smap, iters, eagain, graphs, handles, frame, last, errCall, errOut,
                   fmt, pkt, codec, frm>>

NextMain ==
    \/ MainGetOutput
    \/ MainRead
    \/ MainSubmit
    \/ MainDecode
    \/ MainFeed

SpecMain == InitMain /\ [][NextMain]_vars

(***************************************************************************)
(* Properties of the submit / drain loop (checked under SpecMain).         *)
(***************************************************************************)
\* the packets of the selected streams, each holding one frame
DecodableFrames ==
    Cardinality({<<i, j>> \in (1..NumInputs) \X (1..MaxPackets) :
        j <= Len(fmt[i].packets) /\ fmt[i].packets[j] = codec[i].stream_index})

\* C16 as stated, for a platform whose EAGAIN is the value the graph
\* operations expect: the loop never errors or panics, whatever the decoder
\* does within the backpressure contract, and when it has ended it has
\* produced a frame if the inputs held a decodable one.
C16_LoopEndsCleanly ==
    eagain = EAGAIN_LINUX
    => /\ run.pc # "panic"
       /\ (run.pc = "done" /\ DecodableFrames > 0) => run.frames > 0

(***************************************************************************)
(* Dictionary: config/dict.rs and util/dict.rs.  Both wrap one pointer to  *)
(* a native AVDictionary; NULL (0 here) is the empty dictionary.  dicts    *)
(* holds the Dictionary values of a run, heap the native stores: the       *)
(* entries of each in native order and the number of times av_dict_free    *)
(* released it.  smap is the string map of a conversion.                   *)
(***************************************************************************)
\* Dictionary values created in one run
MaxDicts == 2
\* native stores allocated in one run
MaxStores == 2
\* entries of one native store
MaxEntries == 2

\* a string with an embedded NUL byte, on which CString::new fails
NulString == "k\\0x"

\* the entries a Dictionary pointer denotes
EntriesAt(h, ptr) == IF ptr = 0 THEN <<>> ELSE h[ptr].entries

\* av_dict_set(&m, key, value, flags) with a non-NULL value.  Without
\* MULTIKEY the first entry of the key is looked up, through av_toupper
\* unless MATCH_CASE, and replaced: its slot is filled with the last entry,
\* the new entry goes to the end, APPEND concatenates the values.  With
\* MULTIKEY the entry is added beside the existing ones.
av_dict_set(entries, key, value, flags) ==
    LET av_toupper(c) == IF c = "k" THEN "K" ELSE c
        matches(a, b) == IF "MATCH_CASE" \in flags THEN a = b
                         ELSE av_toupper(a) = av_toupper(b)
        hits == {i \in 1..Len(entries) : matches(entries[i].key, key)}
        tag == IF "MULTIPLE" \in flags \/ hits = {} THEN 0
               ELSE CHOOSE i \in hits : \A j \in hits : i <= j
        n == Len(entries)
        newval == IF tag # 0 /\ "APPEND" \in flags
                  THEN entries[tag].value \o value
                  ELSE value
        kept == IF tag = 0 THEN entries
                ELSE [i \in 1..(n - 1) |->
                        IF i = tag THEN entries[n] ELSE entries[i]]
    IN  Append(kept, [key |-> key, value |-> newval])

\* av_dict_copy(&dst, src, flags): av_dict_set of every entry of src
RECURSIVE av_dict_copy(_, _, _)
av_dict_copy(dst, src, flags) ==
    IF src = <<>> THEN dst
    ELSE av_dict_copy(av_dict_set(dst, Head(src).key, Head(src).value, flags),
                      Tail(src), flags)

\* Dictionary::new
Dictionary_new(impl) ==
    [impl |-> impl, state |-> "live", dict |-> 0, origin |-> 0]

\* Dictionary::raw_add_with_flags; util::dict::Dictionary::add sets with
\* flags 0 the same way.  A failed av_dict_set is a panic
Dictionary_raw_add_with_flags(d, h, key, value, flags, ret) ==
    LET set == av_dict_set(EntriesAt(h, d.dict), key, value, flags)
    IN  IF ret < 0
        THEN [res |-> [kind |-> "Panic", msg |-> "Could not set value"],
              d |-> d, heap |-> h, native |-> <<Called("av_dict_set", ret)>>]
        ELSE IF d.dict = 0
        THEN [res |-> Ok, d |-> [d EXCEPT !.dict = Len(h) + 1],
              heap |-> Append(h, [entries |-> set, frees |-> 0]),
              native |-> <<Called("av_dict_set", ret)>>]
        ELSE [res |-> Ok, d |-> d,
              heap |-> [h EXCEPT ![d.dict].entries = set],
              native |-> <<Called("av_dict_set", ret)>>]

\* a variant that hands the strings to the native call unchecked
Dictionary_add_unchecked(d, h, key, value, flags, ret) ==
    Dictionary_raw_add_with_flags(d, h, key, value, flags, ret)

\* Dictionary::add_with_flags, and Dictionary::add with AddFlags::empty():
\* CString::new(..).expect(..) of the key and of the value, then the set
Dictionary_add_with_flags(d, h, key, value, flags, ret) ==
    IF key = NulString
    THEN [res |-> [kind |-> "Panic",
                   msg |-> "Provided key could not be represented as a C-style string"],
          d |-> d, heap |-> h, native |-> <<>>]
    ELSE IF value = NulString
    THEN [res |-> [kind |-> "Panic",
                   msg |-> "Provided value could not be represented as a C-style string"],
          d |-> d, heap |-> h, native |-> <<>>]
    ELSE Dictionary_raw_add_with_flags(d, h, key, value, flags, ret)

\* a clone that copies the pointer instead of the store
Dictionary_clone_shallow(d, h, self) ==
    [d |-> [d EXCEPT !.origin = self], heap |-> h]

\* impl Clone for Dictionary: av_dict_copy into a NULL pointer
Dictionary_clone(d, h, self) ==
    LET copy == av_dict_copy(<<>>, EntriesAt(h, d.dict), {})
    IN  IF copy = <<>>
        THEN [d |-> [Dictionary_new(d.impl) EXCEPT !.origin = self], heap |-> h]
        ELSE [d |-> [Dictionary_new(d.impl) EXCEPT !.origin = self,
                                                   !.dict = Len(h) + 1],
              heap |-> Append(h, [entries |-> copy, frees |-> 0])]

\* av_dict_free(&m): releases the entries and the store, sets m to NULL
av_dict_free(h, ptr) ==
    IF ptr = 0 THEN h
    ELSE [h EXCEPT ![ptr] = [entries |-> <<>>, frees |-> @.frees + 1]]

\* impl Drop for config::Dictionary: av_dict_free(&mut self.dict);
\* util::dict::Dictionary has no Drop
Dictionary_drop(d, h) ==
    IF d.impl = "config"
    THEN [d |-> [d EXCEPT !.state = "dropped", !.dict = 0],
          heap |-> av_dict_free(h, d.dict)]
    ELSE [d |-> [d EXCEPT !.state = "dropped"], heap |-> h]

\* avfilter_init_dict(ctx, &options): "on return this parameter will be
\* destroyed and replaced with a dict containing options that were not
\* found"; keep is the set of positions of the entries left over.  A failed
\* call has replaced the store or left it as it was
avfilter_init_dict(h, ptr, keep, replaced) ==
    LET entries == EntriesAt(h, ptr)
        RECURSIVE left(_)
        left(i) == IF i > Len(entries) THEN <<>>
                   ELSE IF i \in keep THEN <<entries[i]>> \o left(i + 1)
                   ELSE left(i + 1)
        freed == av_dict_free(h, ptr)
    IN  IF ptr = 0 \/ ~replaced THEN [ptr |-> ptr, heap |-> h]
        ELSE IF left(1) = <<>> THEN [ptr |-> 0, heap |-> freed]
        ELSE [ptr |-> Len(h) + 1,
              heap |-> Append(freed, [entries |-> left(1), frees |-> 0])]

\* From<Dictionary> for HashMap<String, String> (BTreeMap alike):
\* Dictionary::items hands out every entry in native order (the empty key
\* with IGNORE_SUFFIX matches each), and in collect() a later pair replaces
\* an earlier pair of the same, exactly equal, key
Dictionary_into_map(entries) ==
    LET items == [i \in 1..Len(entries) |-> entries[i]]
    IN  {items[i] : i \in {i \in 1..Len(items) :
                              \A j \in (i + 1)..Len(items) :
                                  items[j].key # items[i].key}}

\* FromIterator<(K, V)> for Dictionary: Dictionary::new, then add per pair
RECURSIVE from_iter(_, _, _, _)
from_iter(d, h, pairs, ret) ==
    IF pairs = <<>> THEN [res |-> Ok, d |-> d, heap |-> h]
    ELSE LET o == Dictionary_add_with_flags(d, h, Head(pairs).key,
                                            Head(pairs).value, {}, ret)
         IN  IF o.res # Ok THEN [res |-> o.res, d |-> d, heap |-> h]
             ELSE from_iter(o.d, o.heap, Tail(pairs), ret)

\* a Dictionary the running thread holds (a panic ends the thread)
LiveDict(i) ==
    /\ last.res.kind # "Panic"
    /\ i \in DOMAIN dicts
    /\ dicts[i].state = "live"

InitDict ==
    /\ eagain = EAGAIN_LINUX
    /\ GraphIdle
    /\ dicts = <<>>
    /\ heap = <<>>
    /\ smap = [state |-> "none", map |-> {}, src |-> <<>>]
    /\ iters = <<>>
    /\ last = NoOp
    /\ fmt = NoFormat
    /\ pkt = NewPacket
    /\ codec = NoCodec
    /\ frm = NewFrame
    /\ run = NotRunning

DictNew(impl) ==
    /\ last.res.kind # "Panic"
    /\ Len(dicts) < MaxDicts
    /\ dicts' = Append(dicts, Dictionary_new(impl))
    /\ last' = RawOp("Dictionary::new", <<Len(dicts) + 1>>, Ok, <<>>)
    /\ UNCHANGED <<eagain, graphs, handles, frame, errCall, errOut, decvars,
                   heap, smap, iters>>

\* Dictionary::add of both types, config::Dictionary::add_with_flags
DictAdd(i) ==
    /\ LiveDict(i)
    /\ \E key \in {"k", "K", NulString}, value \in {"x", "y", NulString},
          flags \in {{}, {"MULTIPLE"}}, ret \in {0, av_err(ENOMEM)} :
          LET o == Dictionary_add_with_flags(dicts[i], heap, key, value,
                                             flags, ret)
          IN  /\ flags # {} => dicts[i].impl = "config"
              /\ Len(o.heap) <= MaxStores
              /\ Len(EntriesAt(o.heap, o.d.dict)) <= MaxEntries
              /\ dicts' = [dicts EXCEPT ![i] = o.d]
              /\ heap' = o.heap
              /\ last' = RawOp("Dictionary::add",
                               <<i, key, value, flags>>, o.res, o.native)
    /\ UNCHANGED <<eagain, graphs, handles, frame, errCall, errOut, decvars,
                   smap, iters>>

DictClone(i) ==
    /\ LiveDict(i)
    /\ Len(dicts) < MaxDicts
    /\ LET o == Dictionary_clone(dicts[i], heap, i)
       IN  /\ Len(o.heap) <= MaxStores
           /\ dicts' = Append(dicts, o.d)
           /\ heap' = o.heap
           /\ last' = RawOp("Dictionary::clone", <<i, Len(dicts) + 1>>, Ok,
                            <<Called("av_dict_copy", 0)>>)
    /\ UNCHANGED <<eagain, graphs, handles, frame, errCall, errOut, decvars,
                   smap, iters>>

DictDrop(i) ==
    /\ LiveDict(i)
    /\ LET o == Dictionary_drop(dicts[i], heap)
       IN  /\ dicts' = [dicts EXCEPT ![i] = o.d]
           /\ heap' = o.heap
           /\ last' = RawOp("Dictionary::drop", <<i>>, Ok, <<>>)
    /\ UNCHANGED <<eagain, graphs, handles, frame, errCall, errOut, decvars,
                   smap, iters>>

\* FilterGraph::add seen from its parameter dictionary: the value built by
\* config_parameters_dict is handed to avfilter_init_dict (unless inner_add
\* returned before) and dropped at the end of the call
GraphAddDict(i) ==
    /\ LiveDict(i)
    /\ \E reached \in BOOLEAN, ret \in InitDictRets, replaced \in BOOLEAN,
          keep \in SUBSET (1..MaxEntries) :
          LET n == avfilter_init_dict(heap, dicts[i].dict, keep,
                                      reached /\ replaced)
              o == Dictionary_drop([dicts[i] EXCEPT !.dict = n.ptr], n.heap)
          IN  /\ ret = 0 => replaced
              /\ ~reached => (ret = 0 /\ keep = {})
              /\ keep \subseteq 1..Len(EntriesAt(heap, dicts[i].dict))
              /\ Len(o.heap) <= MaxStores
              /\ dicts' = [dicts EXCEPT ![i] = o.d]
              /\ heap' = o.heap
              /\ last' = RawOp("FilterGraph::add", <<i>>,
                               IF ~reached
                               THEN AllocationFailed("creating filter")
                               ELSE IF ret < 0
                               THEN from_av_err("setting filter parameters", ret)
                               ELSE Ok,
                               IF reached
                               THEN <<Called("avfilter_init_dict", ret)>>
                               ELSE <<>>)
    /\ UNCHANGED <<eagain, graphs, handles, frame, errCall, errOut, decvars,
                   smap, iters>>

\* HashMap::from(dict) / BTreeMap::from(dict): the Dictionary is consumed
DictIntoMap(i) ==
    /\ LiveDict(i)
    /\ dicts[i].impl = "config"
    /\ LET o == Dictionary_drop(dicts[i], heap)
           entries == EntriesAt(heap, dicts[i].dict)
       IN  /\ smap' = [state |-> "built", map |-> Dictionary_into_map(entries),
                       src |-> entries]
           /\ dicts' = [dicts EXCEPT ![i] = o.d]
           /\ heap' = o.heap
           /\ last' = RawOp("HashMap::from", <<i>>, Ok, <<>>)
    /\ UNCHANGED <<eagain, graphs, handles, frame, errCall, errOut, decvars, iters>>

\* Dictionary::from(map): the map is consumed pair by pair, in the order
\* in which it hands out its pairs
DictFromMap ==
    /\ last.res.kind # "Panic"
    /\ smap.state = "built"
    /\ Len(dicts) < MaxDicts
    /\ \E order \in [1..Cardinality(smap.map) -> smap.map],
          ret \in {0, av_err(ENOMEM)} :
          LET o == from_iter(Dictionary_new("config"), heap, order, ret)
          IN  /\ {order[i] : i \in DOMAIN order} = smap.map
              /\ Len(o.heap) <= MaxStores
              /\ dicts' = IF o.res = Ok THEN Append(dicts, o.d) ELSE dicts
              /\ heap' = o.heap
              /\ last' = RawOp("Dictionary::from",
                               <<smap.src, smap.map>>, o.res,
                               EntriesAt(o.heap, o.d.dict))
    /\ smap' = [state |-> "none", map |-> {}, src |-> <<>>]
    /\ UNCHANGED <<eagain, graphs, handles, frame, errCall, errOut, decvars, iters>>

NextDict ==
    \/ \E impl \in {"config", "util"} : DictNew(impl)
    \/ \E i \in 1..MaxDicts : DictAdd(i)
    \/ \E i \in 1..MaxDicts : DictClone(i)
    \/ \E i \in 1..MaxDicts : DictDrop(i)
    \/ \E i \in 1..MaxDicts : GraphAddDict(i)
    \/ \E i \in 1..MaxDicts : DictIntoMap(i)
    \/ DictFromMap

SpecDict == InitDict /\ [][NextDict]_vars

(***************************************************************************)
(* Properties of Dictionary (checked under SpecDict).                      *)
(***************************************************************************)
\* the Dictionary the last operation worked on
DictTarget == last.args[1]

\* one is the clone of the other
CloneRelated(i, j) == dicts[i].origin = j \/ dicts[j].origin = i

\* C21: for a Dictionary D and its clone C, an add on one of them leaves
\* the entries of the other unchanged, and dropping one of them leaves the
\* other alive, with its entries, on a store that was not released.
C21_CloneIsIndependent ==
    [][\A i \in DOMAIN dicts :
          (/\ last'.op \in {"Dictionary::add", "Dictionary::drop"}
           /\ last'.args[1] # i
           /\ LiveDict(i)
           /\ CloneRelated(i, last'.args[1]))
          => /\ dicts'[i] = dicts[i]
             /\ EntriesAt(heap', dicts'[i].dict) = EntriesAt(heap, dicts[i].dict)
             /\ dicts'[i].dict # 0 => heap'[dicts'[i].dict].frees = 0]_vars

\* an add has changed a clone (or the original) while the other one lives
\* with entries of its own
C21_Witness ==
    /\ last.op = "Dictionary::add"
    /\ last.res = Ok
    /\ \E i \in DOMAIN dicts :
          /\ i # DictTarget
          /\ LiveDict(i)
          /\ CloneRelated(i, DictTarget)
          /\ EntriesAt(heap, dicts[i].dict) # <<>>
          /\ EntriesAt(heap, dicts[i].dict)
                # EntriesAt(heap, dicts[DictTarget].dict)

\* the entries of exactly this key
EntriesOf(entries, key) ==
    SelectSeq(entries, LAMBDA e : e.key = key)

\* C22: after Dictionary -> map -> Dictionary, a key that had exactly one
\* entry is in the rebuilt Dictionary with that value, and a key that had
\* several entries is in the map and in the rebuilt Dictionary exactly once.
C22_RoundTripKeepsSingleValuedKeys ==
    (last.op = "Dictionary::from" /\ last.res = Ok)
    => \A key \in {last.args[1][i].key : i \in DOMAIN last.args[1]} :
          LET before == EntriesOf(last.args[1], key)
              inmap == {m \in last.args[2] : m.key = key}
              after == EntriesOf(last.native, key)
          IN  /\ Len(before) = 1 => after = before
              /\ Len(before) > 1 => Cardinality(inmap) = 1 /\ Len(after) = 1

\* C24: every native store is released exactly once when its owner is
\* gone: never twice, and a store that no live Dictionary points to has
\* been released.
C24_StoresFreedExactlyOnce ==
    \A st \in DOMAIN heap :
        /\ heap[st].frees <= 1
        /\ (~\E i \in DOMAIN dicts : LiveDict(i) /\ dicts[i].dict = st)
              => heap[st].frees = 1

\* the last add was given a key or a value with an embedded NUL byte
NulAdd(op) ==
    /\ op.op = "Dictionary::add"
    /\ NulString \in {op.args[2], op.args[3]}

\* C28 as stated: an add with an embedded NUL byte returns a recoverable
\* error to the caller, it does not terminate fatally, and the entries
\* stay as they were.
C28_NulIsRecoverableError ==
    [][NulAdd(last')
       => /\ last'.res.kind \notin {"Ok", "Panic"}
          /\ dicts' = dicts
          /\ heap' = heap]_vars

\* C28, amended: an add with an embedded NUL byte panics before any native
\* call, and the entries stay as they were.
C28_NulPanicsBeforeNativeCall ==
    [][NulAdd(last')
       => /\ last'.res.kind = "Panic"
          /\ last'.native = <<>>
          /\ dicts' = dicts
          /\ heap' = heap]_vars

\* an add with an embedded NUL byte on a Dictionary that holds entries
C28_Witness ==
    /\ NulAdd(last)
    /\ EntriesAt(heap, dicts[DictTarget].dict) # <<>>

(***************************************************************************)
(* More properties of FilterGraph (checked under Spec).                    *)
(***************************************************************************)
\* C23: the native graph of a FilterGraph is released exactly once: a live
\* graph, Unconfigured or Configured (so also after a successful
\* configure), has not been released; a graph that was dropped or whose
\* configure failed has been released once; no operation is called on a
\* graph whose native graph has been released.
C23_NativeGraphFreedOnce ==
    [][\A g \in Graphs :
          /\ graphs'[g].frees <= 1
          /\ graphs'[g].phase \in {"Unconfigured", "Configured"}
                => graphs'[g].frees = 0
          /\ graphs'[g].phase = "Dropped" => graphs'[g].frees = 1
          /\ (last' # last /\ last'.g = g /\ last'.op # "new")
                => graphs[g].frees = 0]_vars

\* a graph was configured with success and then dropped
C23_Witness ==
    /\ last.op = "drop"
    /\ graphs[last.g].phase = "Dropped"
    /\ graphs[last.g].configures = 1
    /\ graphs[last.g].frees = 1

(***************************************************************************)
(* raw/frame.rs: the life of Frame<AV> values.  Here frm is the list of    *)
(* the frames of a run: the media type of each, whether its native shell   *)
(* is allocated, whether it references data, and the number of times       *)
(* av_frame_free released the shell.                                       *)
(***************************************************************************)
\* Frame values created in one run
MaxFrames == 2

\* a retag that builds the new value from a copy and lets self drop
Frame_as_other_dropping(f, T) ==
    [f EXCEPT !.type = T, !.data = FALSE, !.frees = @ + 1]

\* Frame::as_other: transmute(self) moves the value (its Drop does not
\* run), then unref
Frame_as_other(f, T) == Frame_unref([f EXCEPT !.type = T])

\* impl Drop for Frame: av_frame_unref, then av_frame_free, which releases
\* the shell and sets the pointer to NULL (a no-op on NULL)
Frame_drop(f) ==
    LET u == av_frame_unref(f)
    IN  [u EXCEPT !.alloc = FALSE, !.frees = IF u.alloc THEN @ + 1 ELSE @]

\* a Frame the running thread holds (a panic ends the thread)
LiveFrame(i) ==
    /\ last.res.kind # "Panic"
    /\ i \in DOMAIN frm
    /\ frm[i].alloc

InitFrame ==
    /\ eagain = EAGAIN_LINUX
    /\ GraphIdle
    /\ dicts = <<>>
    /\ heap = <<>>
    /\ smap = [state |-> "none", map |-> {}, src |-> <<>>]
    /\ iters = <<>>
    /\ last = NoOp
    /\ fmt = NoFormat
    /\ pkt = NewPacket
    /\ codec = NoCodec
    /\ frm = <<>>
    /\ run = NotRunning

\* Frame::<T>::new: panics when av_frame_alloc answers NULL
FrameNew(T) ==
    /\ last.res.kind # "Panic"
    /\ Len(frm) < MaxFrames
    /\ \E f \in {NullPtr, 1} :
          /\ frm' = IF f = NullPtr THEN frm
                    ELSE Append(frm, NewFrame @@ [type |-> T, frees |-> 0])
          /\ last' = RawOp("Frame::new", <<Len(frm) + 1, T>>,
                           IF f = NullPtr
                           THEN [kind |-> "Panic",
                                 msg |-> "Could not allocate requested frame"]
                           ELSE Ok,
                           <<Called("av_frame_alloc", f)>>)
    /\ UNCHANGED <<eagain, graphs, handles, frame, errCall, errOut,
                   fmt, pkt, codec, run, dicts, heap, smap, iters>>

\* a decoder or a sink has written data into the frame
\* (Codec::get_next_frame_into, FilterGraph::get_output_into with success)
FrameFill(i) ==
    /\ LiveFrame(i)
    /\ frm' = [frm EXCEPT ![i].data = TRUE]
    /\ last' = RawOp("get_next_frame_into", <<i, frm[i]>>, Ok,
                     <<Called("avcodec_receive_frame", 0)>>)
    /\ UNCHANGED <<eagain, graphs, handles, frame, errCall, errOut,
                   fmt, pkt, codec, run, dicts, heap, smap, iters>>

\* Frame::unref
FrameUnrefAt(i) ==
    /\ LiveFrame(i)
    /\ frm' = [frm EXCEPT ![i] = Frame_unref(@)]
    /\ last' = RawOp("Frame::unref", <<i, frm[i]>>, Ok,
                     <<Called("av_frame_unref", 0)>>)
    /\ UNCHANGED <<eagain, graphs, handles, frame, errCall, errOut,
                   fmt, pkt, codec, run, dicts, heap, smap, iters>>

\* Frame::as_other::<T>: the value is consumed and returned retagged
FrameAsOther(i, T) ==
    /\ LiveFrame(i)
    /\ frm' = [frm EXCEPT ![i] = Frame_as_other(@, T)]
    /\ last' = RawOp("Frame::as_other", <<i, frm[i], T>>, Ok,
                     <<Called("av_frame_unref", 0)>>)
    /\ UNCHANGED <<eagain, graphs, handles, frame, errCall, errOut,
                   fmt, pkt, codec, run, dicts, heap, smap, iters>>

\* a Frame goes out of scope
FrameDrop(i) ==
    /\ LiveFrame(i)
    /\ frm' = [frm EXCEPT ![i] = Frame_drop(@)]
    /\ last' = RawOp("Frame::drop", <<i, frm[i]>>, Ok,
                     <<Called("av_frame_unref", 0), Called("av_frame_free", 0)>>)
    /\ UNCHANGED <<eagain, graphs, handles, frame, errCall, errOut,
                   fmt, pkt, codec, run, dicts, heap, smap, iters>>

NextFrame ==
    \/ \E T \in MediaTypes : FrameNew(T)
    \/ \E i \in 1..MaxFrames : FrameFill(i)
    \/ \E i \in 1..MaxFrames : FrameUnrefAt(i)
    \/ \E i \in 1..MaxFrames, T \in MediaTypes : FrameAsOther(i, T)
    \/ \E i \in 1..MaxFrames : FrameDrop(i)

SpecFrame == InitFrame /\ [][NextFrame]_vars

\* C25: Frame::as_other returns a frame of the requested type that holds no
\* data, on the shell of the frame it consumed: the shell is not released
\* and no frame is added by the retag.  The shell of every frame is released
\* exactly once, when the frame is dropped.
C25_RetagKeepsShell ==
    [][/\ last'.op = "Frame::as_other"
          => /\ Len(frm') = Len(frm)
             /\ frm'[last'.args[1]] =
                   [frm[last'.args[1]] EXCEPT !.type = last'.args[3],
                                              !.data = FALSE]
             /\ frm'[last'.args[1]].alloc
             /\ frm'[last'.args[1]].frees = 0
       /\ \A i \in DOMAIN frm' :
             /\ frm'[i].frees <= 1
             /\ frm'[i].alloc <=> frm'[i].frees = 0]_vars

\* a frame that held data was retagged to the other media type
C25_Witness ==
    /\ last.op = "Frame::as_other"
    /\ last.args[2].data
    /\ last.args[2].type # last.args[3]
    /\ frm[last.args[1]].type = last.args[3]

\* C26: an add of a filter whose type the native library does not know
\* returns FilterNotFound with that type name, and nothing was allocated:
\* no further native call was made, the nodes of every graph and the
\* handles are as before.
C26_UnknownTypeIsFilterNotFound ==
    [][(/\ last'.op = "add"
        /\ last'.native[1] = Called("avfilter_get_by_name", NullPtr))
       => /\ last'.res = FilterNotFound(last'.args[1])
          /\ Len(last'.native) = 1
          /\ graphs' = graphs
          /\ handles' = handles]_vars

\* an add of an unknown type on a graph that already has a node
C26_Witness ==
    /\ last.op = "add"
    /\ last.native[1] = Called("avfilter_get_by_name", NullPtr)
    /\ graphs[last.g].nodes # <<>>

\* C27: the names of the nodes a graph has registered are pairwise
\* distinct, whatever adds were made: an add with a name that is in use
\* creates no second node of that name.
C27_NodeNamesDistinct ==
    \A g \in Graphs :
        \A i, j \in DOMAIN graphs[g].filters :
            graphs[g].nodes[graphs[g].filters[i]].name
               = graphs[g].nodes[graphs[g].filters[j]].name => i = j

(***************************************************************************)
(* raw/format.rs: the four seek operations, and util/time/generic.rs.      *)
(***************************************************************************)
\* ticks per second of the native default time base
AV_TIME_BASE == 1000000

\* TimeBase::DEFAULT and TimeBase::MILLISECONDS
TimeBase(name) ==
    IF name = "DEFAULT" THEN [num |-> 1, den |-> AV_TIME_BASE]
    ELSE [num |-> 1, den |-> 1000]

\* StreamConfig::time_base of the streams of an input: milliseconds for
\* the first stream, the ticks of a 48 kHz sample clock for the others
stream_time_base(idx) ==
    IF idx = 0 THEN TimeBase("MILLISECONDS") ELSE [num |-> 1, den |-> 48000]

\* what a caller passes as the time of a seek: a Duration, or a Timestamp
\* in a time base
SeekTimes ==
    {[kind |-> "Duration", millis |-> 1500]}
    \cup {[kind |-> "Timestamp", ticks |-> 1500, base |-> b] :
             b \in {TimeBase("DEFAULT"), TimeBase("MILLISECONDS"),
                     stream_time_base(1)}}

SeekOps == {"seek_stream_to_nearest_frame_before",
            "seek_stream_to_nearest_frame_after",
            "seek_to_nearest_frame_before",
            "seek_to_nearest_frame_after"}

\* From<Duration> for Timestamp: the milliseconds, in TimeBase::MILLISECONDS
Timestamp_from_duration(d) ==
    [ticks |-> d.millis, base |-> TimeBase("MILLISECONDS")]

\* Timestamp::with_new_timebase: self for an equal time base,
\* unimplemented!() for another one
with_new_timebase(ts, other) ==
    IF ts.base = other THEN [res |-> Ok, ts |-> ts]
    ELSE [res |-> [kind |-> "Panic", msg |-> "not implemented"], ts |-> ts]

\* an inner_seek that never asks for the backward direction
Format_inner_seek_forward(stream_idx, ts, before, ret) ==
    [res |-> IF ret < 0 THEN from_av_err("seeking format", ret) ELSE Ok,
     native |-> <<[fn |-> "av_seek_frame", stream_index |-> stream_idx,
                   timestamp |-> ts.ticks, flags |-> {}, ret |-> ret]>>]

\* Format::inner_seek: av_seek_frame(ctx, stream_idx, ticks, flags)
Format_inner_seek(stream_idx, ts, before, ret) ==
    [res |-> IF ret < 0 THEN from_av_err("seeking format", ret) ELSE Ok,
     native |-> <<[fn |-> "av_seek_frame", stream_index |-> stream_idx,
                   timestamp |-> ts.ticks,
                   flags |-> IF before THEN {"AVSEEK_FLAG_BACKWARD"} ELSE {},
                   ret |-> ret]>>]

\* Format::seek_stream_to_nearest_frame_before / _after (on a stream, in
\* its time base) and Format::seek_to_nearest_frame_before / _after (on no
\* stream, in TimeBase::DEFAULT).  A successful native seek moves the read
\* position
Seek(op) ==
    /\ last.res.kind # "Panic"
    /\ fmt.api = "Format"
    /\ \E idx \in 0..(MaxStreams - 1), time \in SeekTimes,
          ret \in {0, av_err(EINVAL)}, pos \in 0..MaxPackets :
          LET tb == stream_time_base(idx)
              on_stream == op \in {"seek_stream_to_nearest_frame_before",
                                   "seek_stream_to_nearest_frame_after"}
              before == op \in {"seek_stream_to_nearest_frame_before",
                                "seek_to_nearest_frame_before"}
              raw == IF time.kind = "Duration"
                     THEN Timestamp_from_duration(time)
                     ELSE [ticks |-> time.ticks, base |-> time.base]
              ts == with_new_timebase(raw, IF on_stream THEN tb
                                           ELSE TimeBase("DEFAULT"))
              o == IF ts.res # Ok THEN [res |-> ts.res, native |-> <<>>]
                   ELSE Format_inner_seek(IF on_stream THEN idx ELSE -1,
                                          ts.ts, before, ret)
          IN  /\ idx < Len(fmt.streams)
              /\ pos <= Len(fmt.packets)
              /\ o.res # Ok => pos = fmt.pos
              /\ fmt' = [fmt EXCEPT !.pos = pos]
              /\ last' = RawOp(op, <<idx, tb, time>>, o.res, o.native)
    /\ UNCHANGED <<dicts, heap, smap, iters, eagain, graphs, handles, frame, errCall,
                   errOut, pkt, codec, frm, run>>

NextSeek ==
    \/ \E op \in SeekOps : Seek(op)
    \/ last.res.kind # "Panic" /\ GetNextPacketInto

InitSeek ==
    /\ eagain = EAGAIN_LINUX
    /\ GraphIdle
    /\ dicts = <<>>
    /\ heap = <<>>
    /\ smap = [state |-> "none", map |-> {}, src |-> <<>>]
    /\ iters = <<>>
    /\ last = NoOp
    /\ fmt \in Inputs("Format")
    /\ pkt = NewPacket
    /\ codec = NoCodec
    /\ frm = NewFrame
    /\ run = NotRunning

SpecSeek == InitSeek /\ [][NextSeek]_vars

\* the native seek call the last operation made
SeekCall == last.native[1]

\* C29: a seek that reaches the native call asks for the backward direction
\* exactly in the two 'before' operations, and passes the index of the
\* stream in the two stream operations, -1 in the two format-wide ones.
C29_SeekDirectionAndStream ==
    (last.op \in SeekOps /\ last.native # <<>>)
    => /\ SeekCall.fn = "av_seek_frame"
       /\ "AVSEEK_FLAG_BACKWARD" \in SeekCall.flags
             <=> last.op \in {"seek_stream_to_nearest_frame_before",
                              "seek_to_nearest_frame_before"}
       /\ SeekCall.stream_index =
             IF last.op \in {"seek_stream_to_nearest_frame_before",
                             "seek_stream_to_nearest_frame_after"}
             THEN last.args[1] ELSE -1

\* a 'before' seek on the second stream has reached the native call
C29_Witness ==
    /\ last.op = "seek_stream_to_nearest_frame_before"
    /\ last.native # <<>>
    /\ last.args[1] = 1

\* C30: a seek to a Duration makes the native seek call, with the tick
\* count of the same instant in the target time base: the stream's for a
\* stream seek, the native default for a format-wide one.
C30_DurationSeekConverts ==
    (last.op \in SeekOps /\ last.args[3].kind = "Duration")
    => LET target == IF last.op \in {"seek_stream_to_nearest_frame_before",
                                     "seek_stream_to_nearest_frame_after"}
                     THEN last.args[2] ELSE TimeBase("DEFAULT")
       IN  /\ last.native # <<>>
           /\ SeekCall.timestamp =
                 (last.args[3].millis * target.den) \div (1000 * target.num)

(***************************************************************************)
(* Library version selectors (crate fflib-version).  The version of a      *)
(* linked library is fixed when the crate is built; every use of a         *)
(* selector macro parses its argument and evaluates it on that version.    *)
(***************************************************************************)
MaxPart == 2

\* Ord for tuples of three numbers: the first unequal position decides
tuple_cmp(a, b) ==
    IF a[1] # b[1] THEN (IF a[1] < b[1] THEN "Less" ELSE "Greater")
    ELSE IF a[2] # b[2] THEN (IF a[2] < b[2] THEN "Less" ELSE "Greater")
    ELSE IF a[3] # b[3] THEN (IF a[3] < b[3] THEN "Less" ELSE "Greater")
    ELSE "Equal"

\* Option::unwrap_or
unwrap_or(o, d) == IF o = None THEN d ELSE o.value

\* a comparison in which an omitted part of the release matches any number
Version_partial_cmp_wildcard(version, release) ==
    tuple_cmp(<<version.major, version.minor, version.patch>>,
              <<release.major, unwrap_or(release.minor, version.minor),
                unwrap_or(release.patch, version.patch)>>)

\* impl PartialOrd<Release> for Version
Version_partial_cmp(version, release) ==
    tuple_cmp(<<version.major, version.minor, version.patch>>,
              <<release.major, unwrap_or(release.minor, 0),
                unwrap_or(release.patch, 0)>>)

\* release::try_parse on the tokens of a bound: the first literal split at
\* its dot gives major and perhaps minor; a '.' token after it must be
\* followed by the literal of the patch
release_try_parse(tokens) ==
    IF tokens.dot /\ tokens.patch = None THEN [kind |-> "Err"]
    ELSE [kind |-> "Ok",
          release |->
              [major |-> tokens.parts[1],
               minor |-> IF Len(tokens.parts) = 2 THEN Some(tokens.parts[2])
                         ELSE None,
               patch |-> IF tokens.dot THEN tokens.patch ELSE None]]

\* Expr::eval; >= and < are PartialOrd::ge and PartialOrd::lt, which ask
\* partial_cmp
RECURSIVE Expr_eval(_, _)
Expr_eval(expr, library) ==
    CASE expr.kind = "Since" ->
             Version_partial_cmp(library, expr.bound) \in {"Greater", "Equal"}
      [] expr.kind = "Before" ->
             Version_partial_cmp(library, expr.bound) = "Less"
      [] expr.kind = "Not" -> ~Expr_eval(expr.expr, library)
      [] expr.kind = "Any" ->
             \E i \in DOMAIN expr.exprs : Expr_eval(expr.exprs[i], library)
      [] expr.kind = "All" ->
             \A i \in DOMAIN expr.exprs : Expr_eval(expr.exprs[i], library)

\* the token sequences of a bound: 58, 58.29, 58.29.100, 58 . 100, and
\* 58.29. with the patch missing
BoundTokens ==
    {[parts |-> p, dot |-> d, patch |-> x] :
        p \in {<<a>> : a \in 0..MaxPart}
              \cup {<<a, b>> : a \in 0..MaxPart, b \in 0..MaxPart},
        d \in BOOLEAN, x \in {None} \cup {Some(c) : c \in 0..MaxPart}}

\* the build script has written the version of the library
InitVersion ==
    /\ eagain = EAGAIN_LINUX
    /\ GraphIdle
    /\ dicts = <<>>
    /\ heap = <<>>
    /\ smap = [state |-> "none", map |-> {}, src |-> <<>>]
    /\ iters = <<>>
    /\ \E ma \in 0..MaxPart, mi \in 0..MaxPart, pa \in 0..MaxPart :
          last = RawOp("build", <<[major |-> ma, minor |-> mi, patch |-> pa]>>,
                       Ok, <<>>)
    /\ fmt = NoFormat
    /\ pkt = NewPacket
    /\ codec = NoCodec
    /\ frm = NewFrame
    /\ run = NotRunning

\* try_cfg / check_satisfaction on selector(bound): a bound that does not
\* parse is a compile error, otherwise the item is kept when the selector
\* holds on the version of the library and removed when it does not
TryCfg(selector) ==
    \E tokens \in BoundTokens :
       LET version == last.args[1]
           parsed == release_try_parse(tokens)
           expr == [kind |-> selector, bound |-> parsed.release]
       IN  /\ tokens.dot \/ tokens.patch = None
           /\ last' = RawOp("try_cfg", <<version, selector, tokens>>,
                 IF parsed.kind = "Err"
                 THEN [kind |-> "CompileError",
                       msg |-> "expected library version release number, like 58.29.100"]
                 ELSE [kind |-> "Ok", kept |-> Expr_eval(expr, version)],
                 <<>>)
           /\ UNCHANGED <<dicts, heap, smap, iters, eagain, graphs, handles, frame,
                          errCall, errOut, decvars>>

NextVersion == \E selector \in {"Since", "Before"} : TryCfg(selector)

SpecVersion == InitVersion /\ [][NextVersion]_vars

\* a version, or a bound with 0 for its omitted parts, as one number
Weight(major, minor, patch) ==
    (major * (MaxPart + 1) + minor) * (MaxPart + 1) + patch

BoundWeight(tokens) ==
    Weight(tokens.parts[1],
           IF Len(tokens.parts) = 2 THEN tokens.parts[2] ELSE 0,
           IF tokens.dot THEN tokens.patch.value ELSE 0)

\* C31: since(bound) keeps the item iff the version is at least the bound,
\* before(bound) iff the version is below the bound, an omitted minor or
\* patch counting as 0; the other selector on the same bound gives the
\* opposite answer.
C31_SinceBeforeOrder ==
    (last.op = "try_cfg" /\ last.res.kind = "Ok")
    => LET v == last.args[1]
           b == release_try_parse(last.args[3]).release
           atleast == Weight(v.major, v.minor, v.patch)
                          >= BoundWeight(last.args[3])
       IN  /\ last.res.kept = (IF last.args[2] = "Since" THEN atleast
                               ELSE ~atleast)
           /\ Expr_eval([kind |-> "Since", bound |-> b], v) = atleast
           /\ Expr_eval([kind |-> "Before", bound |-> b], v) = ~atleast

\* since(major) was asked with minor and patch omitted on a version of
\* that major whose minor is not 0, and the item was kept
C31_Witness ==
    /\ last.op = "try_cfg"
    /\ last.args[2] = "Since"
    /\ Len(last.args[3].parts) = 1 /\ ~last.args[3].dot
    /\ last.args[1].major = last.args[3].parts[1]
    /\ last.args[1].minor > 0
    /\ last.res = [kind |-> "Ok", kept |-> TRUE]

(***************************************************************************)
(* The parameter dictionaries of the sequencing filters ATrim and          *)
(* ACrosssfade.  A formatted string is the sequence of its characters.     *)
(***************************************************************************)
\* the decimal digits of a number, as "{}" writes them
RECURSIVE Decimal(_)
Decimal(n) ==
    LET digit(k) == <<"0", "1", "2", "3", "4", "5", "6", "7", "8", "9">>[k + 1]
    IN  IF n < 10 THEN <<digit(n)>>
        ELSE Decimal(n \div 10) \o <<digit(n % 10)>>

\* "{:02}": at least two characters, filled with zeros on the left
ZeroPad2(n) == IF n < 10 THEN <<"0">> \o Decimal(n) ELSE Decimal(n)

\* a Display that writes seconds and milliseconds only
Timestamp_fmt_seconds(ts) ==
    LET millis == with_new_timebase(ts, TimeBase("MILLISECONDS"))
    IN  IF millis.res # Ok THEN [res |-> millis.res, text |-> <<>>]
        ELSE [res |-> Ok,
              text |-> Decimal(millis.ts.ticks \div 1000) \o <<".">>
                       \o Decimal(millis.ts.ticks % 1000)]

\* impl Display for Timestamp: as_duration (through with_new_timebase to
\* milliseconds), then "{:02}:{:02}:{02}.{03}" of hours, mins, secs,
\* millis; {02} and {03} name the arguments 2 and 3 and ask for no width
Timestamp_fmt(ts) ==
    LET duration == with_new_timebase(ts, TimeBase("MILLISECONDS"))
        total0 == duration.ts.ticks
        millis == total0 % 1000
        total1 == (total0 - millis) \div 1000
        secs == total1 % 60
        total2 == (total1 - secs) \div 60
        mins == total2 % 60
        hours == (total2 - mins) \div 60
    IN  IF duration.res # Ok THEN [res |-> duration.res, text |-> <<>>]
        ELSE [res |-> Ok,
              text |-> ZeroPad2(hours) \o <<":">> \o ZeroPad2(mins)
                       \o <<":">> \o Decimal(secs) \o <<".">>
                       \o Decimal(millis)]

\* dict.add(key, format!("{}", ts)) on the dictionary being built
add_formatted(o, key, ts) ==
    LET text == Timestamp_fmt(ts)
        set == Dictionary_add_with_flags(o.d, o.heap, key, text.text, {}, 0)
    IN  IF o.res # Ok THEN o
        ELSE IF text.res # Ok THEN [o EXCEPT !.res = text.res]
        ELSE [res |-> set.res, d |-> set.d, heap |-> set.heap]

\* ATrim::config_parameters_dict: start, then end or else duration
ATrim_config_parameters_dict(self, h) ==
    LET new == [res |-> Ok, d |-> Dictionary_new("config"), heap |-> h]
        started == add_formatted(new, "start", self.start)
    IN  IF self.end # None
        THEN add_formatted(started, "end", self.end.value)
        ELSE IF self.duration # None
        THEN add_formatted(started, "duration", self.duration.value)
        ELSE IF started.res # Ok THEN started
        ELSE [started EXCEPT
                 !.res = [kind |-> "Panic", msg |-> "Duration or End not set"]]

\* ACrosssfade::config_parameters_dict: duration, then overlap as 0 or 1
ACrosssfade_config_parameters_dict(self, h) ==
    LET new == [res |-> Ok, d |-> Dictionary_new("config"), heap |-> h]
        timed == add_formatted(new, "duration", self.duration)
        set == Dictionary_add_with_flags(timed.d, timed.heap, "overlap",
                   Decimal(IF self.overlap THEN 1 ELSE 0), {}, 0)
    IN  IF timed.res # Ok THEN timed
        ELSE [res |-> set.res, d |-> set.d, heap |-> set.heap]

\* the Timestamp values a caller hands to the constructors: 5 ms, a minute
\* and 1005 ms, and 1 h 2 min 3.004 s as milliseconds; the same tick
\* counts in the default time base
TrimTimes ==
    {[ticks |-> t, base |-> b] :
        t \in {5, 61005, 3723004},
        b \in {TimeBase("MILLISECONDS"), TimeBase("DEFAULT")}}

\* ATrim::new_with_end, ATrim::new_with_duration and
\* ACrosssfade::no_overlap
SequencingFilters ==
    {[type |-> "atrim", start |-> s, end |-> Some(e), duration |-> None] :
        s \in TrimTimes, e \in TrimTimes}
    \cup {[type |-> "atrim", start |-> s, end |-> None, duration |-> Some(e)] :
        s \in TrimTimes, e \in TrimTimes}
    \cup {[type |-> "acrossfade", duration |-> e, overlap |-> FALSE] :
        e \in TrimTimes}

\* a filter is constructed and asked for its parameter dictionary, as
\* FilterGraph::add does
ConfigParametersDict(type) ==
    /\ last.res.kind # "Panic"
    /\ Len(dicts) < MaxDicts
    /\ \E self \in SequencingFilters :
          LET o == IF type = "atrim"
                   THEN ATrim_config_parameters_dict(self, heap)
                   ELSE ACrosssfade_config_parameters_dict(self, heap)
          IN  /\ self.type = type
              /\ Len(o.heap) <= MaxStores
              /\ dicts' = IF o.res = Ok THEN Append(dicts, o.d) ELSE dicts
              /\ heap' = o.heap
              /\ last' = RawOp("config_parameters_dict", <<self>>, o.res,
                               EntriesAt(o.heap, o.d.dict))
    /\ UNCHANGED <<eagain, graphs, handles, frame, errCall, errOut, decvars,
                   smap, iters>>

NextSequencing == \E type \in {"atrim", "acrossfade"} : ConfigParametersDict(type)

SpecSequencing == InitDict /\ [][NextSequencing]_vars

\* the timestamp values among the entries of the live dictionaries
TimestampValues ==
    UNION {{heap[dicts[i].dict].entries[j].value :
               j \in {j \in DOMAIN heap[dicts[i].dict].entries :
                        heap[dicts[i].dict].entries[j].key
                            \in {"start", "end", "duration"}}} :
           i \in {i \in DOMAIN dicts : dicts[i].dict # 0}}

Clock(ticks) ==
    LET hours == ticks \div 3600000
        mins == (ticks \div 60000) % 60
        secs == (ticks \div 1000) % 60
    IN  ZeroPad2(hours) \o <<":">> \o ZeroPad2(mins) \o <<":">>
        \o Decimal(secs) \o <<".">> \o Decimal(ticks % 1000)

\* the value the last parameter dictionary holds under a key
ParameterOf(key) ==
    LET hits == {j \in DOMAIN last.native : last.native[j].key = key}
    IN  last.native[CHOOSE j \in hits : TRUE].value

HandlesMintedBy(g) == {h \in handles : h.minted_by = g}

\* C33: while a graph lives, each handle a successful add on it returned
\* carries the graph's identity and an index below the number of registered
\* nodes, and denotes the node of its name and type; the k-th successful add
\* returns index k-1; no step removes or reorders registered nodes, also
\* not configure.
C33_HandlesDenoteTheirNode ==
    [][\A g \in Graphs :
          /\ Live(g)'
             => \A h \in HandlesMintedBy(g)' :
                   /\ h.graph_id = graphs'[g].graph
                   /\ h.filter_id < Len(graphs'[g].filters)
                   /\ NodeOf(g, h)'.name = h.name
                   /\ NodeOf(g, h)'.filter_type = h.filter_type
          /\ (Live(g) /\ Live(g)')
             => /\ Len(graphs'[g].filters) >= Len(graphs[g].filters)
                /\ \A i \in DOMAIN graphs[g].filters :
                      graphs'[g].filters[i] = graphs[g].filters[i]
                /\ \A h \in HandlesMintedBy(g) : h \in HandlesMintedBy(g)'
          /\ (last'.op = "add" /\ last'.g = g /\ last'.res = Ok)
             => \E h \in handles' :
                   /\ h.minted_by = g
                   /\ h.filter_id = Len(graphs[g].filters)
                   /\ Len(graphs'[g].filters) = Len(graphs[g].filters) + 1
                   /\ h.name = last'.args[2]
      ]_vars

\* a graph was configured whose one registered node was added after an
\* add whose init had failed: the handle has index 0 and denotes the second
\* native node
C33_Witness ==
    \E g \in Graphs :
       /\ graphs[g].phase = "Configured"
       /\ last.op = "configure" /\ last.g = g
       /\ \E h \in HandlesMintedBy(g) :
             h.filter_id = 0 /\ NodeIndex(g, h) = 2

\* the handle carries the identity of graph g but no registered node of g
\* has its index
Unregistered(g, h) ==
    h.graph_id = graphs[g].graph /\ h.filter_id >= Len(graphs[g].filters)

\* C34 as claimed: an operation given a handle of matching identity whose
\* index is not below the number of registered nodes returns
\* FilterNotRegisteredWithGraph naming that handle's filter and makes no
\* native call.
C34_UnregisteredIndexNamed ==
    last.op \in HandleOps
    => \A h \in HandlesOf(last) :
          Unregistered(last.g, h)
          => /\ last.res = FilterNotRegisteredWithGraph(h.name)
             /\ last.native = <<>>

\* the handles of the call in the order in which the operation looks them up
HandleSeq(call) ==
    IF call.op = "connect" THEN <<call.args[1], call.args[3]>>
    ELSE <<call.args[1]>>

\* C34, amended: an operation whose handles all carry the identity of the
\* graph, one of them with an index not below the number of registered
\* nodes, returns FilterNotRegisteredWithGraph naming the filter of the
\* first such handle (connect looks at its source first) and makes no
\* native call.
C34_FirstUnregisteredNamed ==
    (/\ last.op \in HandleOps
     /\ \A h \in HandlesOf(last) : h.graph_id = graphs[last.g].graph
     /\ \E h \in HandlesOf(last) : Unregistered(last.g, h))
    => LET seq == HandleSeq(last)
           first == CHOOSE i \in DOMAIN seq :
                       /\ Unregistered(last.g, seq[i])
                       /\ \A j \in DOMAIN seq :
                             Unregistered(last.g, seq[j]) => i <= j
       IN  /\ last.res = FilterNotRegisteredWithGraph(seq[first].name)
           /\ last.native = <<>>

\* connect was given two handles of matching identity, both without a
\* registered node and of different names, and named its source
C34_Witness ==
    /\ last.op = "connect"
    /\ Unregistered(last.g, last.args[1])
    /\ Unregistered(last.g, last.args[3])
    /\ last.args[1].name # last.args[3].name
    /\ last.res = FilterNotRegisteredWithGraph(last.args[1].name)

\* C35: an add that fails leaves its graph as it was before the call: no
\* node more in the native graph, none more in the node list.
C35_FailedAddLeavesGraph ==
    [][(last'.op = "add" /\ last'.res # Ok)
          => graphs'[last'.g] = graphs[last'.g]]_vars

\* the errors of the six checks of connect on graph record gr, in the order
\* of the claim; an empty entry is a check that passes
OrderedChecks(gr, src, sp, dst, dp) ==
    <<IF src.graph_id # gr.graph THEN <<GraphDoesntOwnHandle>> ELSE <<>>,
      IF dst.graph_id # gr.graph THEN <<GraphDoesntOwnHandle>> ELSE <<>>,
      IF src.filter_id >= Len(gr.filters)
      THEN <<FilterNotRegisteredWithGraph(src.name)>> ELSE <<>>,
      IF dst.filter_id >= Len(gr.filters)
      THEN <<FilterNotRegisteredWithGraph(dst.name)>> ELSE <<>>,
      IF src.filter_id < Len(gr.filters)
         /\ ~PadFree(Resolved(gr, src).outputs, sp)
      THEN <<OutputPadDoesntExist(src.name, src.filter_type, sp)>> ELSE <<>>,
      IF dst.filter_id < Len(gr.filters)
         /\ ~PadFree(Resolved(gr, dst).inputs, dp)
      THEN <<InputPadDoesntExist(dst.name, dst.filter_type, dp)>> ELSE <<>> >>

\* C36: connect returns the error of the first failing check in the order
\* source identity, destination identity, source lookup, destination
\* lookup, source pad, destination pad; with both pads invalid that is
\* OutputPadDoesntExist naming the source, with a foreign handle it is
\* GraphDoesntOwnHandle whatever the pads are.  (A connect that made no
\* native call has left the graph as it was, so the checks are read off
\* the graph of the state it led to.)
C36_FirstFailingCheck ==
    (last.op = "connect" /\ last.native = <<>>)
    => LET checks == OrderedChecks(graphs[last.g], last.args[1],
                         last.args[2], last.args[3], last.args[4])
           failing == {i \in DOMAIN checks : checks[i] # <<>>}
       IN  /\ failing # {}
           /\ last.res = checks[CHOOSE i \in failing :
                                   \A j \in failing : i <= j][1]
           /\ (checks[1] # <<>> \/ checks[2] # <<>>)
              => last.res = GraphDoesntOwnHandle
           /\ (checks[5] # <<>> /\ checks[6] # <<>>)
              => last.res.kind \in {"GraphDoesntOwnHandle",
                                    "OutputPadDoesntExist"}

\* connect was given registered handles of the graph with a source pad and
\* a destination pad that both do not exist, and named the source pad
C36_Witness ==
    /\ last.op = "connect"
    /\ Resolves(graphs[last.g], last.args[1])
    /\ Resolves(graphs[last.g], last.args[3])
    /\ last.args[2] >= Len(Resolved(graphs[last.g], last.args[1]).outputs)
    /\ last.args[4] >= Len(Resolved(graphs[last.g], last.args[3]).inputs)
    /\ last.res = OutputPadDoesntExist(last.args[1].name,
                                       last.args[1].filter_type, last.args[2])

\* C37: get_output_into unreferences the caller's frame before it pulls:
\* after SubmitMoreInput or a native error the frame is empty, after
\* GraphDoesntOwnHandle or FilterNotRegisteredWithGraph it holds what it
\* held before the call.
C37_FrameAfterFailedPull ==
    (last.op = "get_output_into" /\ last.res # Ok)
    => IF last.res.kind \in {"GraphDoesntOwnHandle",
                            "FilterNotRegisteredWithGraph"}
       THEN frame = last.args[2] /\ last.native = <<>>
       ELSE frame = "empty" /\ last.native # <<>>

\* a frame that held data was handed to get_output_into, which answered
\* SubmitMoreInput and left it empty
C37_Witness ==
    /\ last.op = "get_output_into"
    /\ last.args[2] = "data"
    /\ last.res = SubmitMoreInput
    /\ frame = "empty"

(***************************************************************************)
(* The native contexts behind Format, Container and Codec: every           *)
(* AVFormatContext and AVCodecContext the native library allocated, with   *)
(* the Rust value that owns it and the number of times it was released.    *)
(***************************************************************************)
MaxContexts == 3

\* a context the native library has just allocated; no value owns it yet
NewContext(kind) == [kind |-> kind, owner |-> "none", frees |-> 0]

\* Format::open_input: avformat_open_input allocates the context (and frees
\* it itself when it fails), avformat_find_stream_info probes it, and
\* Format { ctx, config } takes it
Format_open_input(h, ret_open, ret_info) ==
    IF ret_open < 0
    THEN [res |-> from_av_err("opening input format", ret_open), heap |-> h,
          native |-> <<Called("avformat_open_input", ret_open)>>]
    ELSE IF ret_info < 0
    THEN [res |-> from_av_err("getting stream info", ret_info),
          heap |-> Append(h, NewContext("AVFormatContext")),
          native |-> <<Called("avformat_open_input", ret_open),
                       Called("avformat_find_stream_info", ret_info)>>]
    ELSE [res |-> Ok,
          heap |-> Append(h, [NewContext("AVFormatContext")
                                 EXCEPT !.owner = "Format"]),
          native |-> <<Called("avformat_open_input", ret_open),
                       Called("avformat_find_stream_info", ret_info)>>]

\* Container::inner_open: the same calls, with fixed error values
Container_inner_open(h, ret_open, ret_info) ==
    IF ret_open < 0
    THEN [res |-> Unknown("Error while openting input format"), heap |-> h,
          native |-> <<Called("avformat_open_input", ret_open)>>]
    ELSE IF ret_info < 0
    THEN [res |-> Unknown("Error while fetching stream information"),
          heap |-> Append(h, NewContext("AVFormatContext")),
          native |-> <<Called("avformat_open_input", ret_open),
                       Called("avformat_find_stream_info", ret_info)>>]
    ELSE [res |-> Ok,
          heap |-> Append(h, [NewContext("AVFormatContext")
                                 EXCEPT !.owner = "Container"]),
          native |-> <<Called("avformat_open_input", ret_open),
                       Called("avformat_find_stream_info", ret_info)>>]

\* Codec::open_decode seen from the native side: avcodec_alloc_context3
\* allocates the decoder context, Codec { codec, .. } takes it at the end
Codec_open_decode_ctx(h, decoder, decoder_ctx, err1, err2) ==
    LET o == open_decode(0, decoder, decoder_ctx, err1, err2)
    IN  IF decoder = NullPtr \/ decoder_ctx = NullPtr
        THEN [res |-> o.res, heap |-> h]
        ELSE IF o.res # Ok
        THEN [res |-> o.res, heap |-> Append(h, NewContext("AVCodecContext"))]
        ELSE [res |-> Ok,
              heap |-> Append(h, [NewContext("AVCodecContext")
                                     EXCEPT !.owner = "Codec"])]

\* Format::open_input / Container::open_input on a path
OpenInput(api) ==
    /\ Len(heap) < MaxContexts
    /\ \E ret_open \in {0, av_err(EINVAL)}, ret_info \in {0, AVERROR_INVALIDDATA} :
          LET o == IF api = "Format"
                   THEN Format_open_input(heap, ret_open, ret_info)
                   ELSE Container_inner_open(heap, ret_open, ret_info)
          IN  /\ ret_open < 0 => ret_info = 0
              /\ heap' = o.heap
              /\ last' = RawOp(api \o "::open_input", <<>>, o.res, o.native)
    /\ UNCHANGED <<dicts, smap, iters, eagain, graphs, handles, frame, errCall,
                   errOut, decvars>>

\* Codec::open_decode on a stream of an open Format
OpenDecodeCtx ==
    /\ Len(heap) < MaxContexts
    /\ \E i \in DOMAIN heap : heap[i].owner = "Format"
    /\ \E o \in {Codec_open_decode_ctx(heap, NullPtr, NullPtr, 0, 0),
                 Codec_open_decode_ctx(heap, 1, NullPtr, 0, 0),
                 Codec_open_decode_ctx(heap, 1, 1, av_err(EINVAL), 0),
                 Codec_open_decode_ctx(heap, 1, 1, 0, av_err(EINVAL)),
                 Codec_open_decode_ctx(heap, 1, 1, 0, 0)} :
          /\ heap' = o.heap
          /\ last' = RawOp("Codec::open_decode", <<>>, o.res, <<>>)
    /\ UNCHANGED <<dicts, smap, iters, eagain, graphs, handles, frame, errCall,
                   errOut, decvars>>

\* impl Drop for Format (avformat_close_input) and for Codec
\* (avcodec_free_context); Container has no Drop
DropOwner(i) ==
    /\ i \in DOMAIN heap
    /\ heap[i].owner \in {"Format", "Codec"}
    /\ heap' = [heap EXCEPT ![i] = [@ EXCEPT !.owner = "dropped",
                                             !.frees = @ + 1]]
    /\ last' = RawOp("drop", <<i>>, Ok, <<>>)
    /\ UNCHANGED <<dicts, smap, iters, eagain, graphs, handles, frame, errCall,
                   errOut, decvars>>

NextOpen ==
    \/ \E api \in {"Format", "Container"} : OpenInput(api)
    \/ OpenDecodeCtx
    \/ \E i \in 1..MaxContexts : DropOwner(i)

SpecOpen == InitDict /\ [][NextOpen]_vars

\* C38: no native object stays allocated after a failed open: a context
\* that was allocated by an open which then failed, and so was handed to
\* no Format, Container or Codec, has been released.
C38_FailedOpenReleasesContext ==
    \A i \in DOMAIN heap : heap[i].owner = "none" => heap[i].frees = 1

(***************************************************************************)
(* The iterators of config::Dictionary.  An iterator borrows its           *)
(* Dictionary, so the Dictionary is neither changed nor dropped while the  *)
(* iterator lives.  `out` and `nones` record what next() has returned.     *)
(***************************************************************************)
\* calls of next() made on one iterator after its end
MaxNones == 2

IterKinds == {"keys", "values", "items"}

NoIter == [state |-> "none", dict |-> 0, entry |-> 0, out |-> <<>>, nones |-> 0]

\* av_dict_get(m, key, prev, flags): the position of the first entry after
\* prev (0 is NULL) whose key matches, 0 for none.  The empty key with
\* IGNORE_SUFFIX is a prefix of every key; another key is compared as a
\* whole, through av_toupper unless MATCH_CASE
av_dict_get(entries, key, prev, flags) ==
    LET av_toupper(c) == IF c = "k" THEN "K" ELSE c
        matches(s) == IF key = "" /\ "IGNORE_SUFFIX" \in flags THEN TRUE
                      ELSE IF "MATCH_CASE" \in flags THEN s = key
                      ELSE av_toupper(s) = av_toupper(key)
        hits == {j \in (prev + 1)..Len(entries) : matches(entries[j].key)}
    IN  IF hits = {} THEN 0 ELSE CHOOSE j \in hits : \A k \in hits : j <= k

\* what an iterator of the kind hands out for an entry
ItemOf(kind, e) ==
    IF kind = "keys" THEN e.key
    ELSE IF kind = "values" THEN e.value
    ELSE <<e.key, e.value>>

\* a next() that does not remember the entry it has reached
Iterator_next_restart(kind, it, entries) ==
    LET next == av_dict_get(entries, "", it.entry, {"IGNORE_SUFFIX"})
    IN  IF next = 0
        THEN [item |-> None, it |-> [it EXCEPT !.nones = @ + 1],
              native |-> <<Called("av_dict_get", 0)>>]
        ELSE [item |-> Some(ItemOf(kind, entries[next])),
              it |-> [it EXCEPT !.out = Append(@, ItemOf(kind, entries[next]))],
              native |-> <<Called("av_dict_get", next)>>]

\* Iterator::next of Keys, Values and Items: av_dict_get of the empty key
\* with AV_DICT_IGNORE_SUFFIX after self.entry; NULL is None and leaves
\* self.entry as it is, an entry is remembered and handed out
Iterator_next(kind, it, entries) ==
    LET next == av_dict_get(entries, "", it.entry, {"IGNORE_SUFFIX"})
    IN  IF next = 0
        THEN [item |-> None, it |-> [it EXCEPT !.nones = @ + 1],
              native |-> <<Called("av_dict_get", 0)>>]
        ELSE [item |-> Some(ItemOf(kind, entries[next])),
              it |-> [it EXCEPT !.entry = next,
                                !.out = Append(@, ItemOf(kind, entries[next]))],
              native |-> <<Called("av_dict_get", next)>>]

InitIter ==
    /\ eagain = EAGAIN_LINUX
    /\ GraphIdle
    /\ dicts = <<>>
    /\ heap = <<>>
    /\ smap = [state |-> "none", map |-> {}, src |-> <<>>]
    /\ iters = [kind \in IterKinds |-> NoIter]
    /\ last = NoOp
    /\ fmt = NoFormat
    /\ pkt = NewPacket
    /\ codec = NoCodec
    /\ frm = NewFrame
    /\ run = NotRunning

\* no iterator borrows Dictionary i
Unborrowed(i) ==
    \A kind \in IterKinds : iters[kind].state = "none" \/ iters[kind].dict # i

\* Dictionary::keys / values / items: a new iterator at the NULL entry
DictIter(kind, i) ==
    /\ LiveDict(i)
    /\ iters[kind].state = "none"
    /\ iters' = [iters EXCEPT ![kind] = [NoIter EXCEPT !.state = "live",
                                                       !.dict = i]]
    /\ last' = RawOp("Dictionary::" \o kind, <<i>>, Ok, <<>>)
    /\ UNCHANGED <<eagain, graphs, handles, frame, errCall, errOut, decvars,
                   dicts, heap, smap>>

\* next() on the iterator of the kind
IterNext(kind) ==
    /\ iters[kind].state = "live"
    /\ iters[kind].nones < MaxNones
    /\ LET it == iters[kind]
           o == Iterator_next(kind, it, EntriesAt(heap, dicts[it.dict].dict))
       IN  /\ iters' = [iters EXCEPT ![kind] = o.it]
           /\ last' = RawOp("next", <<kind>>, o.item, o.native)
    /\ UNCHANGED <<eagain, graphs, handles, frame, errCall, errOut, decvars,
                   dicts, heap, smap>>

\* the iterator goes out of scope
IterDrop(kind) ==
    /\ iters[kind].state = "live"
    /\ iters' = [iters EXCEPT ![kind] = NoIter]
    /\ last' = RawOp("drop", <<kind>>, Ok, <<>>)
    /\ UNCHANGED <<eagain, graphs, handles, frame, errCall, errOut, decvars,
                   dicts, heap, smap>>

NextIter ==
    \/ dicts = <<>> /\ DictNew("config")
    \/ \E i \in 1..MaxDicts : Unborrowed(i) /\ DictAdd(i)
    \/ \E kind \in IterKinds, i \in 1..MaxDicts : DictIter(kind, i)
    \/ \E kind \in IterKinds : IterNext(kind)
    \/ \E kind \in IterKinds : IterDrop(kind)

SpecIter == InitIter /\ [][NextIter]_vars

\* the entries of the Dictionary an iterator walks
Walked(it) == EntriesAt(heap, dicts[it.dict].dict)

\* C39: an iterator of keys(), values() or items() starts at the first
\* entry, hands out the entries in native order, each once, and ends only
\* after the last one, also on further calls; at every position the item of
\* items() is the pair of the items of keys() and values().
C39_IteratorsWalkEntries ==
    /\ \A kind \in IterKinds :
          LET it == iters[kind]
          IN  it.state = "live"
              => /\ Len(it.out) <= Len(Walked(it))
                 /\ \A j \in DOMAIN it.out :
                       it.out[j] = ItemOf(kind, Walked(it)[j])
                 /\ it.nones > 0 => Len(it.out) = Len(Walked(it))
    /\ (/\ iters["items"].state = "live"
        /\ iters["keys"].state = "live"
        /\ iters["values"].state = "live"
        /\ iters["items"].dict = iters["keys"].dict
        /\ iters["items"].dict = iters["values"].dict)
       => \A j \in DOMAIN iters["items"].out :
             /\ j \in DOMAIN iters["keys"].out
                => iters["items"].out[j][1] = iters["keys"].out[j]
             /\ j \in DOMAIN iters["values"].out
                => iters["items"].out[j][2] = iters["values"].out[j]

\* items() has handed out both entries of a Dictionary and then None
\* twice, while keys() has handed out both keys
C39_Witness ==
    /\ iters["items"].state = "live"
    /\ Len(iters["items"].out) = 2
    /\ iters["items"].nones = 2
    /\ iters["keys"].state = "live"
    /\ iters["keys"].dict = iters["items"].dict
    /\ Len(iters["keys"].out) = 2
    /\ iters["items"].out[1] # iters["items"].out[2]

====
